---- MODULE Spec2Model ----
(***************************************************************************)
(* prisbevakaren: the batch price update (update_prices.py), the record    *)
(* store it rewrites (urls.json through IndexedJsonDB) and the Slack       *)
(* notifier (src/slack_notifier.py), as a state machine.                   *)
(*                                                                         *)
(* Optional[T] values are sequences of length at most one: None is <<>>    *)
(* and a present value x is <<x>>.  Prices are the floats 100.0 and 120.0, *)
(* compared with exact equality as the code does.  Timestamps are the      *)
(* readings of a clock that advances at every datetime.now() the batch     *)
(* stores; the records that exist before the run carry timestamp 0.        *)
(***************************************************************************)
EXTENDS Integers, Sequences, FiniteSets, TLC

\* Largest store a batch run is checked on.
MaxItems == 3
\* Largest number of failed URLs a summary is built from.
MaxFailed == 12
\* failed_urls[:10], len(failed_urls) > 10, len(failed_urls) - 10
SummaryCap == 10

None == <<>>
Some(x) == <<x>>

Min(a, b) == IF a < b THEN a ELSE b

Prices == {100, 120}
OptPrice == {None} \cup {Some(p) : p \in Prices}

\* The URL dataclass.
URL(id, url, group_id, current_price, previous_price, last_price_change) ==
    [id |-> id, url |-> url, group_id |-> group_id,
     current_price |-> current_price, previous_price |-> previous_price,
     last_price_change |-> last_price_change]

\* The product pages and groups of the records in urls.json before the run:
\* records 1 and 3 hold the same page in two different groups.
UrlOf(j) == IF j % 2 = 1 THEN "https://example.com/product1"
                         ELSE "https://example.com/product2"
GroupOf(j) == (j + 1) \div 2

\* The price fields of a record before the run: never priced, or priced at
\* 120.0 and changed to 100.0 since.
PriceFields ==
    {<<None, None, None>>,
     <<Some(100), Some(120), Some(0)>>}

StoresOfSize(n) ==
    {[j \in 1..n |-> URL(j, UrlOf(j), GroupOf(j), f[j][1], f[j][2], f[j][3])] :
        f \in [1..n -> PriceFields]}
Stores == UNION {StoresOfSize(n) : n \in 0..MaxItems}

\* What scraper.fetch_price(url) gives the loop: a price, None, or an exception.
FetchResults ==
    {[raised |-> TRUE, price |-> None]}
    \cup {[raised |-> FALSE, price |-> p] : p \in OptPrice}

\* What urls_db.update(url_obj) does: it rewrites the file and returns, or
\* it raises and the file is as it was.
WriteResults == {"ok", "raise"}

\* What client.chat_postMessage does: it returns, raises SlackApiError, or
\* raises something else (a transport error).
Delivery == {"ok", "SlackApiError", "OtherError"}

VARIABLES
    db,            \* urls.json: the stored URL records, in listing order
    db0,           \* urls.json as it was when the run began
    slack_client,  \* whether SLACK_BOT_TOKEN and SLACK_CHANNEL_ID are set
    pc,            \* where update_all_prices is
    urls,          \* urls = urls_db.all(): the run's own copies
    total, idx, updated, unchanged, failed, failed_urls,
    now,           \* the clock
    inputs,        \* per item, once processed: what fetch_price and update did
    outcome,       \* per item: "Pending", "Updated", "Unchanged" or "Failed"
    writes,        \* the records handed to urls_db.update, in order
    alerts,        \* SlackHandler: the log_message calls, in order
    summaries,     \* Slack.post_message_to_slack calls, in order
    notify_failed, \* some chat_postMessage call raised
    fault,         \* the step whose exception left the per-item boundary
    calls,         \* the fetch_price and urls_db.update calls, in order
    scraper,       \* a PriceScraper under study and its last fetch_price call
    probe,         \* an extraction function under study: input and result
    groups_db,     \* groups.json: the stored Group records
    web            \* the Flask app: uuid4() calls made, last message flashed

vars == <<db, db0, slack_client, pc, urls, total, idx, updated, unchanged,
          failed, failed_urls, now, inputs, outcome, writes, alerts,
          summaries, notify_failed, fault, calls, scraper, probe,
          groups_db, web>>

\* The state of update_all_prices.
batch_vars == <<db, db0, slack_client, pc, urls, total, idx, updated,
                unchanged, failed, failed_urls, now, inputs, outcome, writes,
                alerts, summaries, notify_failed, fault, calls>>

\* The state of the Flask app besides urls.json.
app_vars == <<groups_db, web>>

\* The app serves no request: its state is left out.
AppIdle == groups_db = <<>> /\ web = <<>>

----------------------------------------------------------------------------
\* Slack.log_message / post_message_to_slack around chat_postMessage:
\* SlackApiError is caught and logged, anything else leaves the method.
SlackMethodRaises(d) == d = "OtherError"

\* logger.warning / logger.error with the SlackHandler attached at WARNING:
\* emit hands the record to log_message and swallows whatever that raises.
Notify(log, level, subject) ==
    IF slack_client THEN Append(log, [level |-> level, subject |-> subject])
                    ELSE log

\* DbUpdate keyed on the page address instead of the primary key.
DbUpdate_ByUrl(d, rec) ==
    [k \in 1..Len(d) |-> IF d[k].url = rec.url THEN rec ELSE d[k]]

\* urls_db.update(url_obj): replace the stored record with the same id.
HasId(d, id) == \E k \in 1..Len(d) : d[k].id = id
DbUpdate(d, rec) == [k \in 1..Len(d) |-> IF d[k].id = rec.id THEN rec ELSE d[k]]

\* FetchFailed without the None check.
FetchFailed_Never(new_price) == FALSE

\* new_price is None
FetchFailed(new_price) == new_price = None

\* PriceChanged that reports a change on every fetch.
PriceChanged_Always(url_obj, new_price) == TRUE

\* price_changed = url_obj.current_price != new_price
PriceChanged(url_obj, new_price) == url_obj.current_price # new_price

\* ApplyChange with the first two assignments in the other order.
ApplyChange_Swapped(url_obj, new_price, ts) ==
    [url_obj EXCEPT !.current_price = new_price,
                    !.previous_price = new_price,
                    !.last_price_change = Some(ts)]

\* The three assignments made when the price changed.
ApplyChange(url_obj, new_price, ts) ==
    [url_obj EXCEPT !.previous_price = url_obj.current_price,
                    !.current_price = new_price,
                    !.last_price_change = Some(ts)]

\* ShouldSummarize without the failure count.
ShouldSummarize_Always(nfailed, client) == client

\* if failed > 0 and slack_client
ShouldSummarize(nfailed, client) == nfailed > 0 /\ client

\* MoreLine with >= for >.
MoreLine_AtCap(furls) ==
    IF Len(furls) >= SummaryCap THEN Some(Len(furls) - SummaryCap) ELSE None

\* The URLs listed in the summary and the "... and k more" line.
ShownUrls(furls) == SubSeq(furls, 1, Min(SummaryCap, Len(furls)))
MoreLine(furls) ==
    IF Len(furls) > SummaryCap THEN Some(Len(furls) - SummaryCap) ELSE None

\* The summary text, by its parts.
SummaryMessage(ntotal, nfailed, furls) ==
    [emoji |-> IF nfailed < ntotal THEN "warning" ELSE "x",
     total |-> ntotal,
     succeeded |-> ntotal - nfailed,
     failed |-> nfailed,
     urls |-> IF furls # <<>> THEN ShownUrls(furls) ELSE <<>>,
     more |-> IF furls # <<>> THEN MoreLine(furls) ELSE None]

----------------------------------------------------------------------------
Init ==
    /\ db \in Stores
    /\ db0 = db
    /\ slack_client \in BOOLEAN
    /\ pc = "start"
    /\ urls = <<>>
    /\ total = 0 /\ idx = 0 /\ updated = 0 /\ unchanged = 0 /\ failed = 0
    /\ failed_urls = <<>>
    /\ now = 1
    /\ inputs = <<>>
    /\ outcome = <<>>
    /\ writes = <<>>
    /\ alerts = <<>>
    /\ summaries = <<>>
    /\ notify_failed = FALSE
    /\ fault = "none"
    /\ calls = <<>>
    /\ scraper = None
    /\ probe = <<>>
    /\ AppIdle

\* Escapes with the exception swallowed: the function returns.
Escapes_Swallowed(step) ==
    /\ pc' = "done"
    /\ fault' = step

\* An exception reaches `except Exception` of the outer try.
Escapes(step) ==
    /\ pc' = "critical"
    /\ fault' = step

\* urls_db = IndexedJsonDB(URL, URLS_DB_PATH, primary_key="id")
OpenStore ==
    /\ pc = "start"
    /\ \/ pc' = "opened" /\ UNCHANGED fault
       \/ Escapes("open_store")
    /\ UNCHANGED <<db, db0, slack_client, urls, total, idx, updated, unchanged,
                   failed, failed_urls, now, inputs, outcome, writes, alerts,
                   summaries, notify_failed>>
    /\ UNCHANGED <<calls, scraper, probe>>
    /\ UNCHANGED app_vars

\* with PriceScraper() as scraper:
EnterScraper ==
    /\ pc = "opened"
    /\ \/ pc' = "entered" /\ UNCHANGED fault
       \/ Escapes("acquire_scraper")
    /\ UNCHANGED <<db, db0, slack_client, urls, total, idx, updated, unchanged,
                   failed, failed_urls, now, inputs, outcome, writes, alerts,
                   summaries, notify_failed>>
    /\ UNCHANGED <<calls, scraper, probe>>
    /\ UNCHANGED app_vars

\* urls = urls_db.all() and the counters' initialisation.
ListItems ==
    /\ pc = "entered"
    /\ \/ /\ urls' = db
          /\ total' = Len(db)
          /\ idx' = 1
          /\ updated' = 0 /\ unchanged' = 0 /\ failed' = 0
          /\ failed_urls' = <<>>
          /\ inputs' = [j \in 1..Len(db) |-> None]
          /\ outcome' = [j \in 1..Len(db) |-> "Pending"]
          /\ pc' = "loop"
          /\ UNCHANGED fault
       \/ /\ Escapes("list_items")
          /\ UNCHANGED <<urls, total, idx, updated, unchanged, failed,
                         failed_urls, inputs, outcome>>
    /\ UNCHANGED <<db, db0, slack_client, now, writes, alerts, summaries,
                   notify_failed>>
    /\ UNCHANGED <<calls, scraper, probe>>
    /\ UNCHANGED app_vars

\* What happened to one item: the fetch result and, if urls_db.update was
\* called, how it ended.
Input(r, w) == [raised |-> r.raised, price |-> r.price, write |-> w]

\* ItemFailed that takes the item for an unchanged one: nothing is counted
\* as failed and nothing is appended.
ItemFailed_AsUnchanged(level, d) ==
    /\ unchanged' = unchanged + 1
    /\ outcome' = [outcome EXCEPT ![idx] = "Unchanged"]
    /\ alerts' = Notify(alerts, level, urls[idx].url)
    /\ notify_failed' = (notify_failed \/ (slack_client /\ d # "ok"))
    /\ UNCHANGED <<updated, failed, failed_urls>>

\* ItemFailed without the append.
ItemFailed_NoAppend(level, d) ==
    /\ failed' = failed + 1
    /\ alerts' = Notify(alerts, level, urls[idx].url)
    /\ notify_failed' = (notify_failed \/ (slack_client /\ d # "ok"))
    /\ outcome' = [outcome EXCEPT ![idx] = "Failed"]
    /\ UNCHANGED <<updated, unchanged, failed_urls>>

\* failed += 1; failed_urls.append(url_obj.url), after a warning or an error
\* that the SlackHandler forwards.
ItemFailed(level, d) ==
    /\ failed' = failed + 1
    /\ failed_urls' = Append(failed_urls, urls[idx].url)
    /\ alerts' = Notify(alerts, level, urls[idx].url)
    /\ notify_failed' = (notify_failed \/ (slack_client /\ d # "ok"))
    /\ outcome' = [outcome EXCEPT ![idx] = "Failed"]
    /\ UNCHANGED <<updated, unchanged>>

\* A call the loop makes for a record: scraper.fetch_price(url_obj.url) or
\* urls_db.update(url_obj).
Call(op, url_obj) == [op |-> op, id |-> url_obj.id, url |-> url_obj.url]

\* A loop that stays on the item whose fetch gave no price.
NextItem_RetryFailed(i, r) ==
    IF r.raised \/ r.price = None THEN i ELSE i + 1

\* `for url_obj in urls`: the loop moves to the next record whatever
\* fetch_price gave, the `continue` after a None included.
NextItem(i, r) == i + 1

\* One iteration of `for url_obj in urls`.
ProcessItem ==
    /\ pc = "loop"
    /\ idx <= total
    /\ \E r \in FetchResults, w \in WriteResults, d \in Delivery :
         LET url_obj == urls[idx]
             writing == ~r.raised /\ ~FetchFailed(r.price)
                        /\ PriceChanged(url_obj, r.price)
         IN
         /\ inputs' = [inputs EXCEPT ![idx] =
                          Some(Input(r, IF writing THEN w ELSE "none"))]
         /\ calls' = calls \o <<Call("fetch_price", url_obj)>>
                       \o (IF writing THEN <<Call("update", url_obj)>>
                                      ELSE <<>>)
         /\ idx' = NextItem(idx, r)
         /\ IF r.raised
              THEN /\ ItemFailed("ERROR", d)
                   /\ UNCHANGED <<db, urls, now, writes>>
            ELSE IF FetchFailed(r.price)
              THEN /\ ItemFailed("WARNING", d)
                   /\ UNCHANGED <<db, urls, now, writes>>
            ELSE IF PriceChanged(url_obj, r.price)
              THEN LET new_obj == ApplyChange(url_obj, r.price, now) IN
                   /\ urls' = [urls EXCEPT ![idx] = new_obj]
                   /\ now' = now + 1
                   /\ writes' = Append(writes, new_obj)
                   /\ IF w = "ok" /\ HasId(db, new_obj.id)
                        THEN /\ db' = DbUpdate(db, new_obj)
                             /\ updated' = updated + 1
                             /\ outcome' = [outcome EXCEPT ![idx] = "Updated"]
                             /\ UNCHANGED <<unchanged, failed, failed_urls,
                                            alerts, notify_failed>>
                        ELSE /\ db' = db
                             /\ ItemFailed("ERROR", d)
              ELSE /\ unchanged' = unchanged + 1
                   /\ outcome' = [outcome EXCEPT ![idx] = "Unchanged"]
                   /\ UNCHANGED <<db, urls, now, writes, updated, failed,
                                  failed_urls, alerts, notify_failed>>
    /\ UNCHANGED <<db0, slack_client, pc, total, summaries, fault>>
    /\ UNCHANGED <<scraper, probe>>
    /\ UNCHANGED app_vars

\* The end of the with block: PriceScraper.__exit__ -> close().
ExitScraper ==
    /\ pc = "loop"
    /\ idx > total
    /\ \/ pc' = "summary" /\ UNCHANGED fault
       \/ Escapes("release_scraper")
    /\ UNCHANGED <<db, db0, slack_client, urls, total, idx, updated, unchanged,
                   failed, failed_urls, now, inputs, outcome, writes, alerts,
                   summaries, notify_failed>>
    /\ UNCHANGED <<calls, scraper, probe>>
    /\ UNCHANGED app_vars

\* The summary notification after the job-completed log lines.
SendSummary ==
    /\ pc = "summary"
    /\ IF ShouldSummarize(failed, slack_client)
         THEN \E d \in Delivery :
                /\ summaries' = Append(summaries,
                                       SummaryMessage(total, failed, failed_urls))
                /\ notify_failed' = (notify_failed \/ d # "ok")
                /\ IF SlackMethodRaises(d)
                     THEN Escapes("send_summary")
                     ELSE pc' = "done" /\ UNCHANGED fault
         ELSE /\ pc' = "done"
              /\ UNCHANGED <<summaries, notify_failed, fault>>
    /\ UNCHANGED <<db, db0, slack_client, urls, total, idx, updated, unchanged,
                   failed, failed_urls, now, inputs, outcome, writes, alerts>>
    /\ UNCHANGED <<calls, scraper, probe>>
    /\ UNCHANGED app_vars

\* except Exception as e: logger.error("Critical error ..."); raise
ReportCritical ==
    /\ pc = "critical"
    /\ \E d \in Delivery :
         /\ alerts' = Notify(alerts, "ERROR", "Critical error in price update job")
         /\ notify_failed' = (notify_failed \/ (slack_client /\ d # "ok"))
         /\ pc' = "raised"
    /\ UNCHANGED <<db, db0, slack_client, urls, total, idx, updated, unchanged,
                   failed, failed_urls, now, inputs, outcome, writes,
                   summaries, fault>>
    /\ UNCHANGED <<calls, scraper, probe>>
    /\ UNCHANGED app_vars

Next ==
    \/ OpenStore
    \/ EnterScraper
    \/ ListItems
    \/ ProcessItem
    \/ ExitScraper
    \/ SendSummary
    \/ ReportCritical

Spec == Init /\ [][Next]_vars

----------------------------------------------------------------------------
\* The summary step on its own, entered from the runs that need it long:
\* a store of up to MaxFailed never-priced records, Slack configured, every
\* fetch returned None, the scraper was released.
FailedRuns ==
    UNION {[1..n -> {UrlOf(1), UrlOf(2)}] : n \in 0..MaxFailed}

InitSummary ==
    \E u \in FailedRuns :
        LET n == Len(u)
            recs == [j \in 1..n |-> URL(j, u[j], j, None, None, None)]
        IN
        /\ db = recs /\ db0 = recs /\ urls = recs
        /\ slack_client = TRUE
        /\ pc = "summary"
        /\ total = n /\ idx = n + 1
        /\ updated = 0 /\ unchanged = 0 /\ failed = n
        /\ failed_urls = [j \in 1..n |-> u[j]]
        /\ now = 1
        /\ inputs = [j \in 1..n |->
                        Some(Input([raised |-> FALSE, price |-> None], "none"))]
        /\ outcome = [j \in 1..n |-> "Failed"]
        /\ writes = <<>>
        /\ alerts = [j \in 1..n |-> [level |-> "WARNING", subject |-> u[j]]]
        /\ summaries = <<>>
        /\ notify_failed = FALSE
        /\ fault = "none"
        /\ calls = [j \in 1..n |-> Call("fetch_price", recs[j])]
        /\ scraper = None
        /\ probe = <<>>
        /\ AppIdle

NextSummary == SendSummary \/ ReportCritical

SpecSummary == InitSummary /\ [][NextSummary]_vars

----------------------------------------------------------------------------
\* Properties of the batch run.

Items == 1..Len(outcome)
Processed(j) == outcome[j] # "Pending"
In(j) == inputs[j][1]
\* The records the run handed to urls_db.update for item j.
WritesFor(j) == SelectSeq(writes, LAMBDA rec : rec.id = db0[j].id)
\* The extracted price of item j, when there is one.
GotPrice(j) == Processed(j) /\ ~In(j).raised /\ In(j).price # None
NoPrice(j) == Processed(j) /\ (In(j).raised \/ In(j).price = None)

\* C1: when the extracted price differs from the stored current_price (the
\* first observation included), exactly one record is handed to the store
\* for the item: previous_price is the old current_price (unset on a first
\* observation), current_price is the extracted price, last_price_change is
\* a timestamp that no record carried before, the other fields are as they
\* were; and that record is what the store holds once the write returned.
C1_ChangeIsWritten ==
    \A j \in Items :
        (GotPrice(j) /\ In(j).price # db0[j].current_price) =>
            /\ Len(WritesFor(j)) = 1
            /\ LET rec == WritesFor(j)[1] IN
                 /\ rec.previous_price = db0[j].current_price
                 /\ rec.current_price = In(j).price
                 /\ rec.last_price_change # None
                 /\ \A k \in 1..Len(db0) :
                        rec.last_price_change # db0[k].last_price_change
                 /\ rec.url = db0[j].url /\ rec.group_id = db0[j].group_id
                 /\ (db0[j].current_price = None => rec.previous_price = None)
                 /\ (In(j).write = "ok" => db[j] = rec)

\* Two changes in one finished run: a first observation and a change of a
\* price that was stored before.
C1_Witness ==
    /\ pc = "done"
    /\ \E j \in Items :
          /\ outcome[j] = "Updated" /\ db0[j].current_price = None
          /\ db[j].current_price = Some(120) /\ db[j].previous_price = None
    /\ \E j \in Items :
          /\ outcome[j] = "Updated" /\ db0[j].current_price = Some(100)
          /\ db[j].current_price = Some(120)
          /\ db[j].previous_price = Some(100)

\* C2: when the extracted price equals the stored current_price, no record
\* is handed to the store for the item and its stored record is as it was.
C2_EqualPriceLeavesRecord ==
    \A j \in Items :
        (GotPrice(j) /\ In(j).price = db0[j].current_price) =>
            /\ WritesFor(j) = <<>>
            /\ db[j] = db0[j]
            /\ urls[j] = db0[j]

\* An item whose price was fetched and found equal, with a previous price
\* and a change date on record.
C2_Witness ==
    \E j \in Items :
        /\ GotPrice(j) /\ In(j).price = db0[j].current_price
        /\ db0[j].previous_price = Some(120)
        /\ db0[j].last_price_change = Some(0)
        /\ idx > j

\* C3: when the fetch gives no price (None, or an exception), no record is
\* handed to the store for the item and its stored record is as it was; a
\* stored current_price stays set.
C3_NoPriceLeavesRecord ==
    \A j \in Items :
        NoPrice(j) =>
            /\ WritesFor(j) = <<>>
            /\ db[j] = db0[j]
            /\ (db0[j].current_price # None => db[j].current_price # None)

\* A finished run in which a priced item got None and another an exception.
C3_Witness ==
    /\ pc = "done"
    /\ \E j \in Items :
          /\ Processed(j) /\ ~In(j).raised /\ In(j).price = None
          /\ db0[j].current_price = Some(100)
    /\ \E j \in Items : Processed(j) /\ In(j).raised


\* What the loop makes of one item, from the item's own stored record and
\* its own fetch and write results.
Classify(rec0, in) ==
    IF in.raised \/ in.price = None THEN "Failed"
    ELSE IF in.price = rec0.current_price THEN "Unchanged"
    ELSE IF in.write = "ok" THEN "Updated"
    ELSE "Failed"

\* The record the store must hold for an item with that classification.
RecordAsExpected(rec, rec0, in) ==
    IF Classify(rec0, in) = "Updated"
      THEN /\ rec.id = rec0.id /\ rec.url = rec0.url
           /\ rec.group_id = rec0.group_id
           /\ rec.current_price = in.price
           /\ rec.previous_price = rec0.current_price
           /\ rec.last_price_change \notin {None, rec0.last_price_change}
      ELSE rec = rec0

\* C4: a failing item (fetch gave None or raised, or the store write
\* raised) becomes Failed and the loop goes on: the items before idx are
\* all processed, after the loop every item is; each item's outcome and
\* stored record are those its own record and its own results determine,
\* whatever happened to the others, and an item not yet reached is as stored.
C4_FailureIsContained ==
    /\ \A j \in Items :
          IF Processed(j)
            THEN /\ outcome[j] = Classify(db0[j], In(j))
                 /\ RecordAsExpected(db[j], db0[j], In(j))
            ELSE db[j] = db0[j]
    /\ (pc = "loop" => \A j \in Items : Processed(j) <=> j < idx)
    /\ (pc # "loop" => \A j \in Items : Processed(j))
    /\ (fault \in {"none", "release_scraper", "send_summary"}
          /\ pc \notin {"start", "opened", "entered"} => Len(outcome) = Len(db0))

\* A finished run of three: the first fetch raised, the second item's store
\* write raised, the third was updated all the same.
C4_Witness ==
    /\ pc = "done"
    /\ Len(outcome) = 3
    /\ In(1).raised /\ outcome[1] = "Failed"
    /\ In(2).write = "raise" /\ outcome[2] = "Failed"
    /\ outcome[3] = "Updated" /\ db[3].current_price = Some(120)

FailedUpTo(j) == Cardinality({k \in 1..j : outcome[k] = "Failed"})

\* C5 as claimed: an item whose fetch returned None without an error is
\* counted as Unchanged, not as Failed.
C5_Claimed_NoPriceIsUnchanged ==
    \A j \in Items :
        (Processed(j) /\ ~In(j).raised /\ In(j).price = None) =>
            outcome[j] = "Unchanged"

\* C5: an item whose fetch returned None without an error is Failed: the
\* failed counter counts it, its URL is in the failure list at its place,
\* and its stored record is as it was.
C5_NoPriceIsFailed ==
    \A j \in Items :
        (Processed(j) /\ ~In(j).raised /\ In(j).price = None) =>
            /\ outcome[j] = "Failed"
            /\ failed >= FailedUpTo(j)
            /\ Len(failed_urls) >= FailedUpTo(j)
            /\ failed_urls[FailedUpTo(j)] = db0[j].url
            /\ db[j] = db0[j]

\* A finished run in which a never-priced item got None from the fetch.
C5_Witness ==
    /\ pc = "done"
    /\ \E j \in Items :
          /\ Processed(j) /\ ~In(j).raised /\ In(j).price = None
          /\ db0[j].current_price = None
          /\ failed_urls # <<>>

Count(o) == Cardinality({j \in Items : outcome[j] = o})

RECURSIVE FailedUrlsUpTo(_)
FailedUrlsUpTo(n) ==
    IF n = 0 THEN <<>>
    ELSE IF outcome[n] = "Failed"
           THEN Append(FailedUrlsUpTo(n - 1), db0[n].url)
           ELSE FailedUrlsUpTo(n - 1)

\* A's fetch throws, B's price is equal, C's price differs and is stored.
Scenario6 ==
    /\ Len(outcome) = 3
    /\ \A j \in Items : Processed(j)
    /\ In(1).raised
    /\ GotPrice(2) /\ In(2).price = db0[2].current_price
    /\ GotPrice(3) /\ In(3).price # db0[3].current_price /\ In(3).write = "ok"

\* C6: the counters count the items by outcome and the failure list is
\* the URLs of the Failed items in processing order; when the loop is over
\* no item is pending and total = updated + unchanged + failed; in the run
\* of A, B, C the counts are 3, 1, 1, 1 and the list is [A.url].
C6_CountsPartitionItems ==
    /\ updated = Count("Updated")
    /\ unchanged = Count("Unchanged")
    /\ failed = Count("Failed")
    /\ failed_urls = FailedUrlsUpTo(Len(outcome))
    /\ Len(failed_urls) = failed
    /\ (pc \in {"summary", "done"} =>
          /\ total = Len(db0)
          /\ Count("Pending") = 0
          /\ total = updated + unchanged + failed)
    /\ (pc \in {"summary", "done"} /\ Scenario6 =>
          /\ total = 3 /\ updated = 1 /\ unchanged = 1 /\ failed = 1
          /\ failed_urls = <<db0[1].url>>)

\* The run of A, B, C has returned.
C6_Witness == pc = "done" /\ Scenario6


C8_SummaryListIsCapped ==
    \A k \in 1..Len(summaries) :
        LET m == summaries[k]
            n == Len(failed_urls)
        IN
        /\ Len(m.urls) = (IF n < 10 THEN n ELSE 10)
        /\ \A i \in 1..Len(m.urls) : m.urls[i] = failed_urls[i]
        /\ (n > 10 => m.more = Some(n - 10))
        /\ (n <= 10 => m.more = None)

\* A summary of twelve failures: ten URLs and "2 more".
C8_Witness ==
    /\ summaries # <<>>
    /\ Len(failed_urls) = 12
    /\ Len(summaries[1].urls) = 10
    /\ summaries[1].more = Some(2)
    /\ failed_urls[1] # failed_urls[2]

CriticalAlert ==
    [level |-> "ERROR", subject |-> "Critical error in price update job"]
CriticalCount == Len(SelectSeq(alerts, LAMBDA a : a = CriticalAlert))

\* C9: an exception from opening the store, acquiring the scraper, listing
\* the items, releasing the scraper or sending the summary never lets the
\* run return normally: it ends raised, and with the SlackHandler attached
\* exactly one critical error was reported, as the last alert before the
\* re-raise; a run without such an exception reports none.
C9_FaultIsReportedAndRaised ==
    /\ (fault # "none" <=> pc \in {"critical", "raised"})
    /\ (pc = "done" => fault = "none")
    /\ (pc = "raised" /\ slack_client =>
          /\ CriticalCount = 1
          /\ alerts[Len(alerts)] = CriticalAlert)
    /\ (pc # "raised" => CriticalCount = 0)

\* The scraper's release raised after an item had failed: reported, raised.
C9_Witness ==
    /\ pc = "raised"
    /\ fault = "release_scraper"
    /\ slack_client
    /\ failed > 0
    /\ alerts[Len(alerts)] = CriticalAlert

\* C10 as claimed: when nothing but the delivery of a notification has
\* failed, the run does not end abnormally.
C10_Claimed_NotifierFailureIsHarmless ==
    (notify_failed /\ fault \notin {"open_store", "acquire_scraper",
                                     "list_items", "release_scraper"})
        => pc \notin {"critical", "raised"}

\* The fetch_price calls of the run, in order.
FetchCalls == SelectSeq(calls, LAMBDA c : c.op = "fetch_price")
UpdateCalls == SelectSeq(calls, LAMBDA c : c.op = "update")

\* C11: within one batch run the items are processed one at a time in the
\* order the store listed them: the k-th fetch_price call is for the k-th
\* listed record, there is exactly one fetch_price call per processed item
\* (none is repeated after a failure), and every urls_db.update call comes
\* directly after the fetch_price call of the same record, so before the
\* fetch of the next one.
C11_OneAtATimeInListingOrder ==
    /\ Len(FetchCalls) = Cardinality({j \in Items : Processed(j)})
    /\ \A k \in 1..Len(FetchCalls) :
          /\ k <= Len(db0)
          /\ FetchCalls[k].id = db0[k].id
          /\ FetchCalls[k].url = db0[k].url
          /\ Processed(k)
    /\ \A k \in 1..Len(calls) :
          calls[k].op = "update" =>
              /\ k > 1
              /\ calls[k - 1] = [calls[k] EXCEPT !.op = "fetch_price"]
    /\ Len(UpdateCalls) = Len(writes)
    /\ \A k \in 1..Len(writes) : UpdateCalls[k].id = writes[k].id

\* A finished run over three records: the first and the third were written,
\* the fetch of the second gave nothing and was not repeated.
C11_Witness ==
    /\ pc = "done"
    /\ Len(db0) = 3
    /\ calls = <<Call("fetch_price", db0[1]), Call("update", db0[1]),
                 Call("fetch_price", db0[2]),
                 Call("fetch_price", db0[3]), Call("update", db0[3])>>
    /\ outcome[2] = "Failed"

----------------------------------------------------------------------------
\* PriceScraper (src/price_scraper.py): the strategies as functions of what
\* a page holds, fetch_price, and the browser the scraper owns.
\*
\* A page is described by what each lookup of the strategies finds in it:
\*   jsonld    what _extract_from_jsonld returns for it
\*   nextjs    what _extract_from_nextjs_data returns for it
\*   frag      the price the "/st" fragment loop of _scrape_willys builds
\*   cls       the number in the first element whose class holds "price"
\*             (the selectors for the classes "price" and "product-price"
\*             are taken to find the same element)
\*   testid    the number in the element with data-testid="product-price"
\*   itemprop  the number in the element with itemprop="price"
\*   idp       the number in the first element whose id holds "price"
\*   meta      the content of <meta property="product:price:amount">:
\*             None without the tag, Some(None) when float() rejects the
\*             content, Some(Some(x)) when it parses to x
\* Each lookup has its own number, so that a result tells where it is from.
Pages ==
    [jsonld : {None, Some(11)}, nextjs : {None, Some(12)},
     frag : {None, Some(13)}, cls : {None, Some(14)},
     testid : {None, Some(15)}, itemprop : {None, Some(16)},
     idp : {None, Some(17)}, meta : {None, Some(None), Some(Some(18))}]

\* urlparse(url).netloc of the pages fetched.
Domains == {"www.jula.se", "www.willys.se", "example.com"}
\* "jula.se" in domain, "willys.se" in domain
IsJula(domain) == domain = "www.jula.se"
IsWillys(domain) == domain = "www.willys.se"

\* `if price:` for an Optional[float]: None and 0.0 are both false.
Truthy(price) == price # None /\ price[1] # 0

\* The first truthy number among the lookups of a selector loop.
RECURSIVE FirstTruthy(_)
FirstTruthy(found) ==
    IF found = <<>> THEN None
    ELSE IF Truthy(Head(found)) THEN Head(found)
    ELSE FirstTruthy(Tail(found))

\* return float(content) for the meta tag; a ValueError ends the strategy
\* in its except clause, which returns None.
MetaPrice(page) == page.meta[1]

\* class "price", class "product-price", itemprop "price", class ~ price;
\* then the meta tag.
ScrapeJula(page) ==
    LET sel == FirstTruthy(<<page.cls, page.cls, page.itemprop, page.cls>>)
    IN IF sel # None THEN sel
       ELSE IF page.meta # None THEN MetaPrice(page)
       ELSE None

\* The "/st" fragments; then class ~ price, data-testid "product-price",
\* class "product-price", itemprop "price"; then the meta tag.
ScrapeWillys(page) ==
    LET sel == FirstTruthy(<<page.cls, page.testid, page.cls, page.itemprop>>)
    IN IF page.frag # None THEN page.frag
       ELSE IF sel # None THEN sel
       ELSE IF page.meta # None THEN MetaPrice(page)
       ELSE None

\* The meta tag first; then class ~ price, itemprop "price", id ~ price.
ScrapeGeneric(page) ==
    IF page.meta # None THEN MetaPrice(page)
    ELSE FirstTruthy(<<page.cls, page.itemprop, page.idp>>)

\* What a strategy call adds to the result of fetch_price: the price it
\* gave and the record that it was consulted.
Consult(name, price) == [price |-> price, trace |-> <<name>>]

\* The routing that falls back on _scrape_generic when the heuristic of
\* jula.se or willys.se finds nothing.
DomainStrategy_GenericLastResort(domain, page) ==
    LET own == IF IsJula(domain) THEN Consult("jula", ScrapeJula(page))
               ELSE Consult("willys", ScrapeWillys(page))
    IN IF ~IsJula(domain) /\ ~IsWillys(domain)
         THEN Consult("generic", ScrapeGeneric(page))
       ELSE IF own.price # None THEN own
       ELSE [price |-> ScrapeGeneric(page),
             trace |-> own.trace \o <<"generic">>]

\* if "jula.se" in domain: ... elif "willys.se" in domain: ... else: ...
DomainStrategy(domain, page) ==
    IF IsJula(domain) THEN Consult("jula", ScrapeJula(page))
    ELSE IF IsWillys(domain) THEN Consult("willys", ScrapeWillys(page))
    ELSE Consult("generic", ScrapeGeneric(page))

\* The chain with the embedded-state scan before the structured-data scan.
StaticChain_NextjsFirst(domain, page) ==
    IF Truthy(page.nextjs) THEN Consult("nextjs", page.nextjs)
    ELSE IF Truthy(page.jsonld)
      THEN [price |-> page.jsonld, trace |-> <<"nextjs", "jsonld">>]
    ELSE LET last == DomainStrategy(domain, page) IN
         [price |-> last.price, trace |-> <<"nextjs", "jsonld">> \o last.trace]

\* fetch_price from the parsed response on: JSON-LD, then the Next.js data,
\* then the strategy of the domain.
StaticChain(domain, page) ==
    IF Truthy(page.jsonld) THEN Consult("jsonld", page.jsonld)
    ELSE IF Truthy(page.nextjs)
      THEN [price |-> page.nextjs, trace |-> <<"jsonld", "nextjs">>]
    ELSE LET last == DomainStrategy(domain, page) IN
         [price |-> last.price, trace |-> <<"jsonld", "nextjs">> \o last.trace]

\* What the browser does in one _get_page_with_browser call: the driver
\* does not start, chromium does not launch, the navigation fails or times
\* out, the page comes back empty, or it comes back with content.
RenderOutcomes == {"start_error", "launch_error", "nav_error", "empty",
                   "content"}
\* requests.get and raise_for_status: a response, or an exception (network
\* error, timeout, HTTP error status).
HttpOutcomes == {"ok", "error"}
\* close(): it returns, or _browser.close() raises, or _playwright.stop()
\* raises.
CloseOutcomes == {"ok", "browser_close_raises", "stop_raises"}

\* The sites fetched through a scraper under study: the static response
\* and what the rendered markup has in addition, the "/st" fragments.
SitePages ==
    {pg \in Pages : /\ pg.nextjs = None /\ pg.cls = None /\ pg.testid = None
                     /\ pg.itemprop = None /\ pg.idp = None
                     /\ pg.meta = None}
Sites == [static : SitePages, rendered_frag : {None, Some(23)}]
RenderedPage(site) == [site.static EXCEPT !.frag = site.rendered_frag]

\* PriceScraper.__init__, and whether playwright can be imported.
NewScraper(use_browser, installed) ==
    [use_browser |-> use_browser, installed |-> installed,
     _playwright |-> FALSE,   \* self._playwright is set
     _browser |-> FALSE,      \* self._browser is set
     driver |-> "none",       \* the playwright driver: none, running, stopped
     browser |-> "none",      \* the chromium process: none, open, closed
     launches |-> 0,          \* chromium.launch calls that returned
     reused |-> FALSE,        \* a page was opened in a browser launched earlier
     ctx |-> "inside",        \* inside, exited, exit_raised
     last |-> None]           \* the last fetch_price call

\* page.content(): the markup of the page, or the empty string.
Markup(empty, page) == [empty |-> empty, page |-> page]

\* _get_page_with_browser(url): the scraper afterwards and the content
\* returned, None for every failure.
GetPageWithBrowser(s, r, page) ==
    IF ~s.use_browser THEN [scraper |-> s, content |-> None]
    ELSE IF ~s.installed THEN [scraper |-> s, content |-> None]
    ELSE
      LET starting == ~s._playwright
          s1 == IF ~starting \/ r = "start_error" THEN s
                ELSE IF r = "launch_error"
                  THEN [s EXCEPT !._playwright = TRUE, !.driver = "running"]
                ELSE [s EXCEPT !._playwright = TRUE, !.driver = "running",
                               !._browser = TRUE, !.browser = "open",
                               !.launches = @ + 1]
      IN IF starting /\ r \in {"start_error", "launch_error"}
           THEN [scraper |-> s1, content |-> None]
         ELSE IF ~s1._browser
           THEN [scraper |-> s1, content |-> None]
         ELSE LET s2 == [s1 EXCEPT !.reused = @ \/ ~starting] IN
              IF r = "content"
                THEN [scraper |-> s2, content |-> Some(Markup(FALSE, page))]
              ELSE IF r = "empty"
                THEN [scraper |-> s2, content |-> Some(Markup(TRUE, page))]
              ELSE [scraper |-> s2, content |-> None]

\* `if html_content:` None and the empty string are both false.
HasContent(content) == content # None /\ ~content[1].empty

\* The rendered branch with the two scans tried on the rendered markup
\* before the heuristic.
RenderedResult_WithScans(content) ==
    LET c == StaticChain("www.willys.se", content[1].page) IN
    [price |-> c.price, trace |-> <<"render">> \o c.trace]

\* return self._scrape_willys(soup) for the rendered markup.
RenderedResult(content) ==
    [price |-> ScrapeWillys(content[1].page), trace |-> <<"render", "willys">>]

\* requests.get, raise_for_status and the chain on the response; an
\* exception ends in `except Exception: return None`.
StaticResult(domain, h, page, before) ==
    IF h # "ok" THEN [price |-> None, trace |-> before \o <<"get">>]
    ELSE LET c == StaticChain(domain, page) IN
         [price |-> c.price, trace |-> before \o <<"get">> \o c.trace]

\* `"willys.se" in domain and self.use_browser`
Rendering(domain, use_browser) == IsWillys(domain) /\ use_browser

\* fetch_price that returns None when the rendered fetch gave nothing.
FetchPriceResult_NoStaticAfterRender(domain, use_browser, content, h, page) ==
    IF Rendering(domain, use_browser)
      THEN IF HasContent(content) THEN RenderedResult(content)
           ELSE [price |-> None, trace |-> <<"render">>]
    ELSE StaticResult(domain, h, page, <<>>)

\* fetch_price(url) once _get_page_with_browser, if called, has returned:
\* the price returned and the steps taken.
FetchPriceResult(domain, use_browser, content, h, page) ==
    IF Rendering(domain, use_browser)
      THEN IF HasContent(content) THEN RenderedResult(content)
           ELSE StaticResult(domain, h, page, <<"render">>)
    ELSE StaticResult(domain, h, page, <<>>)

\* scraper.fetch_price(url) inside the with block.
FetchPrice ==
    /\ scraper # None
    /\ scraper[1].ctx = "inside"
    /\ \E domain \in Domains, site \in Sites, r \in RenderOutcomes,
          h \in HttpOutcomes :
         LET s == scraper[1]
             g == IF Rendering(domain, s.use_browser)
                    THEN GetPageWithBrowser(s, r, RenderedPage(site))
                    ELSE [scraper |-> s, content |-> None]
             res == FetchPriceResult(domain, s.use_browser, g.content, h,
                                     site.static)
         IN
         /\ r \in {"start_error", "launch_error"} => ~s._playwright
         /\ scraper' = Some([g.scraper EXCEPT !.last =
                Some([domain |-> domain, site |-> site, render |-> r,
                      http |-> h, got_content |-> HasContent(g.content),
                      price |-> res.price, trace |-> res.trace])])
    /\ UNCHANGED batch_vars
    /\ UNCHANGED app_vars
    /\ UNCHANGED probe

\* close() with a _browser.close() that raises: the browser may or may not
\* be gone, self._browser stays set, _playwright.stop() is not reached.
\* close() with a _playwright.stop() that raises: the browser is closed,
\* the driver may or may not be gone, self._playwright stays set.
Close(s, c, gone) ==
    IF s._browser /\ c = "browser_close_raises"
      THEN [s EXCEPT !.browser = IF gone THEN "closed" ELSE "open",
                     !.ctx = "exit_raised"]
    ELSE LET s1 == IF s._browser
                     THEN [s EXCEPT !.browser = "closed", !._browser = FALSE]
                     ELSE s
         IN IF s1._playwright /\ c = "stop_raises"
              THEN [s1 EXCEPT !.driver = IF gone THEN "stopped" ELSE "running",
                              !.ctx = "exit_raised"]
            ELSE IF s1._playwright
              THEN [s1 EXCEPT !.driver = "stopped", !._playwright = FALSE,
                              !.ctx = "exited"]
            ELSE [s1 EXCEPT !.ctx = "exited"]

\* The end of the with block, reached normally or by an exception:
\* __exit__ calls close() either way.
ExitContext ==
    /\ scraper # None
    /\ scraper[1].ctx = "inside"
    /\ \E c \in CloseOutcomes, gone \in BOOLEAN :
         scraper' = Some(Close(scraper[1], c, gone))
    /\ UNCHANGED batch_vars
    /\ UNCHANGED app_vars
    /\ UNCHANGED probe

\* update_all_prices is not running.
BatchIdle ==
    /\ db = <<>> /\ db0 = <<>> /\ slack_client = FALSE /\ pc = "idle"
    /\ urls = <<>> /\ total = 0 /\ idx = 0 /\ updated = 0 /\ unchanged = 0
    /\ failed = 0 /\ failed_urls = <<>> /\ now = 1 /\ inputs = <<>>
    /\ outcome = <<>> /\ writes = <<>> /\ alerts = <<>> /\ summaries = <<>>
    /\ notify_failed = FALSE /\ fault = "none" /\ calls = <<>>

\* A scraper straight from `with PriceScraper(...) as scraper`.
InitScraper ==
    /\ \E use_browser \in BOOLEAN, installed \in BOOLEAN :
         scraper = Some(NewScraper(use_browser, installed))
    /\ probe = <<>>
    /\ BatchIdle
    /\ AppIdle

NextScraper == FetchPrice \/ ExitContext

SpecScraper == InitScraper /\ [][NextScraper]_vars

\* fetch_price on its static path, for every page and domain: a URL, what
\* requests.get met and the page it was given.
InitStatic ==
    /\ \E domain \in Domains, page \in Pages, h \in HttpOutcomes :
         probe = [fn |-> "fetch_price", domain |-> domain, page |-> page,
                  http |-> h, out |-> None]
    /\ scraper = None
    /\ BatchIdle
    /\ AppIdle

\* The static request and the strategies on its response.
StaticFetch ==
    /\ probe # <<>>
    /\ probe.fn = "fetch_price"
    /\ probe.out = None
    /\ probe' = [probe EXCEPT !.out =
                    Some(StaticResult(probe.domain, probe.http, probe.page,
                                      <<>>))]
    /\ UNCHANGED batch_vars
    /\ UNCHANGED app_vars
    /\ UNCHANGED scraper

NextStatic == StaticFetch

SpecStatic == InitStatic /\ [][NextStatic]_vars

----------------------------------------------------------------------------
\* Properties of the scraper.

Scraper == scraper[1]
LastFetch == scraper[1].last[1]
Fetched == scraper # None /\ scraper[1].last # None
\* The rendered fetch of the last call could not give content: playwright
\* is not installed, rendering is switched off, or the driver start, the
\* launch or the navigation failed.
RenderMiss ==
    \/ ~Scraper.installed
    \/ ~Scraper.use_browser
    \/ LastFetch.render \in {"start_error", "launch_error", "nav_error"}

\* C12, as claimed: no browser exists before the first fetch, at most one
\* browser is launched per scraper, and once the with block has been left,
\* by whatever path and whatever close() met, neither the browser nor the
\* playwright driver is still running.
C12_Claimed_BrowserIsReleasedOnEveryExit ==
    scraper # None =>
        /\ (Scraper.last = None /\ Scraper.ctx = "inside" =>
                Scraper.browser = "none" /\ Scraper.driver = "none")
        /\ Scraper.launches <= 1
        /\ (Scraper.ctx # "inside" =>
                Scraper.browser # "open" /\ Scraper.driver # "running")

\* C13: for a willys.se URL, when playwright is not installed, rendering
\* is switched off, or the driver start, the launch or the navigation
\* fails, the rendered fetch gives no content and fetch_price goes on to
\* the static request; when that request succeeds, the price returned is
\* the one the static chain finds in its response.
C13_RenderMissFallsBackToStatic ==
    (Fetched /\ IsWillys(LastFetch.domain) /\ RenderMiss) =>
        LET c == LastFetch
            chain == StaticChain(c.domain, c.site.static)
            before == IF Scraper.use_browser THEN <<"render">> ELSE <<>>
        IN
        /\ ~c.got_content
        /\ \E k \in 1..Len(c.trace) : c.trace[k] = "get"
        /\ c.http = "ok" =>
              /\ c.price = chain.price
              /\ c.trace = before \o <<"get">> \o chain.trace
        /\ c.http # "ok" => c.price = None

\* chromium did not launch, and the static response of the same willys.se
\* page gave the price of its JSON-LD block.
C13_Witness ==
    /\ Fetched
    /\ Scraper.use_browser /\ Scraper.installed
    /\ LastFetch.domain = "www.willys.se"
    /\ LastFetch.render = "launch_error"
    /\ LastFetch.site.rendered_frag = Some(23)
    /\ LastFetch.price = Some(11)
    /\ LastFetch.trace = <<"render", "get", "jsonld">>

\* C14: for a willys.se URL with rendering switched on, when the rendered
\* fetch returns content, fetch_price returns what _scrape_willys finds in
\* that content and nothing else was done: no static request, no JSON-LD
\* scan, no Next.js scan, no generic strategy, also when _scrape_willys
\* finds no price.
C14_RenderedContentGoesToWillysOnly ==
    (Fetched /\ IsWillys(LastFetch.domain) /\ Scraper.use_browser
       /\ LastFetch.got_content) =>
        /\ LastFetch.price = ScrapeWillys(RenderedPage(LastFetch.site))
        /\ LastFetch.trace = <<"render", "willys">>
        /\ \A k \in 1..Len(LastFetch.trace) :
              LastFetch.trace[k] \notin {"get", "jsonld", "nextjs", "generic"}

\* Rendered content without fragments, in a page whose JSON-LD block has a
\* price: fetch_price returned None.
C14_Witness ==
    /\ Fetched
    /\ LastFetch.domain = "www.willys.se"
    /\ Scraper.use_browser /\ LastFetch.got_content
    /\ LastFetch.render = "content"
    /\ LastFetch.site.rendered_frag = None
    /\ LastFetch.site.static.jsonld = Some(11)
    /\ LastFetch.http = "ok"
    /\ LastFetch.price = None

----------------------------------------------------------------------------
\* Properties of the static path of fetch_price.

\* A static fetch whose request succeeded, and its result.
StaticDone ==
    /\ probe # <<>> /\ probe.fn = "fetch_price"
    /\ probe.out # None /\ probe.http = "ok"
HasHeuristic(domain) == IsJula(domain) \/ IsWillys(domain)
\* What a strategy, taken alone, finds in a page.
Finds(name, page) ==
    CASE name = "jsonld" -> page.jsonld
      [] name = "nextjs" -> page.nextjs
      [] name = "jula" -> ScrapeJula(page)
      [] name = "willys" -> ScrapeWillys(page)
      [] name = "generic" -> ScrapeGeneric(page)
\* The positions of an order at which the strategy finds a price.
Hits(order, page) == {k \in 1..Len(order) : Finds(order[k], page) # None}
FirstHit(order, page) ==
    CHOOSE k \in Hits(order, page) : \A m \in Hits(order, page) : k <= m
\* fetch_price consults the strategies of an order one by one and returns
\* the price of the first that finds one.
FollowsOrder(order) ==
    LET page == probe.page
        out == probe.out[1]
    IN IF Hits(order, page) = {}
         THEN out.price = None /\ out.trace = <<"get">> \o order
         ELSE LET k == FirstHit(order, page) IN
              /\ out.price = Finds(order[k], page)
              /\ out.trace = <<"get">> \o SubSeq(order, 1, k)
OwnHeuristic(domain) == IF IsJula(domain) THEN "jula" ELSE "willys"

\* C15, as claimed: the order is JSON-LD, Next.js data, the heuristic of
\* the domain if it has one, generic fallback.
C15_Claimed_GenericEndsEveryOrder ==
    StaticDone =>
        FollowsOrder(<<"jsonld", "nextjs">>
                     \o (IF HasHeuristic(probe.domain)
                           THEN <<OwnHeuristic(probe.domain)>> ELSE <<>>)
                     \o <<"generic">>)

\* C15: for a statically fetched page the strategies are consulted in the
\* order JSON-LD scan, Next.js data scan, then one last strategy picked by
\* the domain: _scrape_jula for jula.se, _scrape_willys for willys.se,
\* _scrape_generic for any other domain.  The price returned is that of
\* the first of them that finds one and none is consulted after it.
C15_StaticOrderFirstWins ==
    StaticDone =>
        FollowsOrder(<<"jsonld", "nextjs">>
                     \o (IF HasHeuristic(probe.domain)
                           THEN <<OwnHeuristic(probe.domain)>>
                           ELSE <<"generic">>))

\* A jula.se page whose Next.js data and whose price element both hold a
\* price: the Next.js one is returned and _scrape_jula is not consulted.
C15_Witness ==
    /\ StaticDone
    /\ probe.domain = "www.jula.se"
    /\ probe.page.jsonld = None /\ probe.page.nextjs = Some(12)
    /\ probe.page.cls = Some(14)
    /\ probe.out[1].price = Some(12)
    /\ probe.out[1].trace = <<"get", "jsonld", "nextjs">>

\* C16, as claimed: when the two scans found nothing, the generic fallback
\* is attempted for a domain without a heuristic, and for jula.se and
\* willys.se it is attempted when their heuristic finds no price and its
\* result is what fetch_price returns.
C16_Claimed_GenericIsLastResort ==
    (StaticDone /\ probe.page.jsonld = None /\ probe.page.nextjs = None) =>
        LET out == probe.out[1]
            tried == \E k \in 1..Len(out.trace) : out.trace[k] = "generic"
        IN
        /\ ~HasHeuristic(probe.domain) => tried
        /\ (HasHeuristic(probe.domain)
              /\ Finds(OwnHeuristic(probe.domain), probe.page) = None) =>
                tried /\ out.price = ScrapeGeneric(probe.page)

\* C16: when the two scans found nothing, the generic fallback is
\* attempted, and its result returned, exactly for the URLs whose domain
\* has no heuristic of its own; for jula.se and willys.se it is never
\* attempted and fetch_price returns what their heuristic gave, None
\* included, whatever the generic fallback would have found.
C16_GenericOnlyWithoutHeuristic ==
    (StaticDone /\ probe.page.jsonld = None /\ probe.page.nextjs = None) =>
        LET out == probe.out[1]
            tried == \E k \in 1..Len(out.trace) : out.trace[k] = "generic"
        IN
        /\ tried <=> ~HasHeuristic(probe.domain)
        /\ ~HasHeuristic(probe.domain) =>
              out.price = ScrapeGeneric(probe.page)
        /\ HasHeuristic(probe.domain) =>
              out.price = Finds(OwnHeuristic(probe.domain), probe.page)

\* A jula.se page whose only price is in an element with a price id: the
\* generic fallback would find it, fetch_price returns None.
C16_Witness ==
    /\ StaticDone
    /\ probe.domain = "www.jula.se"
    /\ probe.page.jsonld = None /\ probe.page.nextjs = None
    /\ ScrapeJula(probe.page) = None
    /\ ScrapeGeneric(probe.page) = Some(17)
    /\ probe.out[1].price = None
    /\ probe.out[1].trace = <<"get", "jsonld", "nextjs", "jula">>

----------------------------------------------------------------------------
\* Texts and numbers.  A text is a sequence of characters, each a string
\* of length one.  A float is the decimal it was written as, m / 10^e with
\* no trailing zero in the fraction, so that 199.00 and 199 are the same
\* value and 22.90 is [m |-> 229, e |-> 1].

\* Longest text the normalizer is run on exhaustively.
MaxText == 3

DigitChars == {"0", "1", "2", "3", "4", "5", "6", "7", "8", "9"}
IsDigit(c) == c \in DigitChars
DigitVal(c) ==
    CASE c = "0" -> 0 [] c = "1" -> 1 [] c = "2" -> 2 [] c = "3" -> 3
      [] c = "4" -> 4 [] c = "5" -> 5 [] c = "6" -> 6 [] c = "7" -> 7
      [] c = "8" -> 8 [] c = "9" -> 9

\* int() of a run of digits.
RECURSIVE DigitsValue(_)
DigitsValue(ds) ==
    IF ds = <<>> THEN 0
    ELSE 10 * DigitsValue(SubSeq(ds, 1, Len(ds) - 1)) + DigitVal(ds[Len(ds)])

RECURSIVE StripZeros(_)
StripZeros(ds) ==
    IF ds # <<>> /\ ds[Len(ds)] = "0"
      THEN StripZeros(SubSeq(ds, 1, Len(ds) - 1))
      ELSE ds

Dec(m, e) == [m |-> m, e |-> e]
\* float("<whole>.<frac>") for two runs of digits, the second possibly
\* empty.
Float(whole, frac) ==
    Dec(DigitsValue(whole \o StripZeros(frac)), Len(StripZeros(frac)))

RECURSIVE Pow10(_)
Pow10(e) == IF e = 0 THEN 1 ELSE 10 * Pow10(e - 1)
\* lo <= x < hi for a float x and two integers.
Between(lo, x, hi) == lo * Pow10(x.e) <= x.m /\ x.m < hi * Pow10(x.e)
\* `if x:` for an Optional[float] written as a decimal.
TruthyDec(x) == x # None /\ x[1].m # 0

\* str.lower() on the letters of the currency tokens.
Lower(c) ==
    CASE c = "K" -> "k" [] c = "R" -> "r" [] c = "S" -> "s" [] c = "E" -> "e"
      [] OTHER -> c
Drop(text, n) == SubSeq(text, n + 1, Len(text))
StartsWithNoCase(text, word) ==
    /\ Len(text) >= Len(word)
    /\ \A k \in 1..Len(word) : Lower(text[k]) = word[k]

\* re.sub(r"kr|SEK|\$|€|£", "", text, flags=re.I): one pass from the left,
\* the alternatives tried in order at each position.
RECURSIVE RemoveCurrency(_)
RemoveCurrency(text) ==
    IF text = <<>> THEN <<>>
    ELSE IF StartsWithNoCase(text, <<"k", "r">>)
      THEN RemoveCurrency(Drop(text, 2))
    ELSE IF StartsWithNoCase(text, <<"s", "e", "k">>)
      THEN RemoveCurrency(Drop(text, 3))
    ELSE IF text[1] \in {"$", "€", "£"} THEN RemoveCurrency(Drop(text, 1))
    ELSE <<text[1]>> \o RemoveCurrency(Tail(text))

\* A replacement that deletes the commas.
CommaToPoint_Deleted(text) == SelectSeq(text, LAMBDA c : c # ",")

\* text.replace(",", ".")
CommaToPoint(text) ==
    [k \in 1..Len(text) |-> IF text[k] = "," THEN "." ELSE text[k]]

\* The longest run of digits at the start of a text.
RECURSIVE DigitRun(_)
DigitRun(text) ==
    IF text # <<>> /\ IsDigit(text[1])
      THEN <<text[1]>> \o DigitRun(Tail(text))
      ELSE <<>>

\* re.findall(r"\d+\.?\d*", text)[0]: from the first digit on, the digits,
\* a point if one follows, and the digits after it; <<>> without a digit.
\* The result is the pair of the two runs.
RECURSIVE FirstMatch(_)
FirstMatch(text) ==
    IF text = <<>> THEN <<>>
    ELSE IF ~IsDigit(text[1]) THEN FirstMatch(Tail(text))
    ELSE LET whole == DigitRun(text)
             rest == Drop(text, Len(whole))
         IN IF rest # <<>> /\ rest[1] = "."
              THEN <<whole, DigitRun(Tail(rest))>>
              ELSE <<whole, <<>>>>

\* _extract_number(text)
ExtractNumber(text) ==
    LET m == FirstMatch(CommaToPoint(RemoveCurrency(text))) IN
    IF m = <<>> THEN None ELSE Some(Float(m[1], m[2]))

\* The characters of the texts tried exhaustively: digits, the two decimal
\* separators, letters of the currency tokens in both cases, a currency
\* sign, a blank and another letter.
Alphabet == {"0", "1", "9", ",", ".", "k", "R", "s", "E", "$", " ", "x"}
\* The formats the docstring of _extract_number lists, and a text without
\* a number.
ExampleTexts ==
    {<<"1", "9", "9", " ", "k", "r">>,
     <<"1", "9", "9", ",", "0", "0", " ", "k", "r">>,
     <<"1", "9", "9", ".", "0", "0">>,
     <<"k", "r", " ", "1", "9", "9">>,
     <<"$", "1", "9", "9", ".", "9", "9">>,
     <<"n", "o", " ", "d", "i", "g", "i", "t", "s", " ", "h", "e", "r", "e">>}
Texts == UNION {[1..n -> Alphabet] : n \in 0..MaxText} \cup ExampleTexts

\* _extract_number on every text.
InitNumber ==
    /\ \E text \in Texts :
         probe = [fn |-> "_extract_number", text |-> text, out |-> None]
    /\ scraper = None
    /\ BatchIdle
    /\ AppIdle

ExtractNumberCall ==
    /\ probe # <<>>
    /\ probe.fn = "_extract_number"
    /\ probe.out = None
    /\ probe' = [probe EXCEPT !.out = Some(ExtractNumber(probe.text))]
    /\ UNCHANGED batch_vars
    /\ UNCHANGED app_vars
    /\ UNCHANGED scraper

NextNumber == ExtractNumberCall

SpecNumber == InitNumber /\ [][NextNumber]_vars

----------------------------------------------------------------------------
\* Properties of the normalizer.

NumberDone ==
    probe # <<>> /\ probe.fn = "_extract_number" /\ probe.out # None
HasDigit(text) == \E k \in 1..Len(text) : IsDigit(text[k])
AllDigits(text, a, b) == \A k \in a..b : IsDigit(text[k])
\* The text from a to b is the first run of digits of the text, with a
\* point and the digits after it if a point follows the run, and x is its
\* value.
IsFirstNumber(text, a, b, x) ==
    /\ \A k \in 1..(a - 1) : ~IsDigit(text[k])
    /\ \E j \in a..b :
          /\ AllDigits(text, a, j)
          /\ IF j < Len(text) /\ text[j + 1] = "."
               THEN /\ b >= j + 1
                    /\ AllDigits(text, j + 2, b)
                    /\ x = Float(SubSeq(text, a, j), SubSeq(text, j + 2, b))
               ELSE /\ b = j
                    /\ x = Float(SubSeq(text, a, j), <<>>)
    /\ b < Len(text) => ~IsDigit(text[b + 1])

\* C19: with the currency tokens kr, SEK, $, EUR sign, GBP sign removed
\* without regard to case and every comma replaced by a point, the
\* normalizer returns the value of the first run of digits, optionally
\* followed by a point and more digits; it returns None exactly when the
\* text holds no digit.  "199,00 kr" gives 199.0, "kr 199" gives 199.0,
\* "$199.99" gives 199.99 and "no digits here" gives None.
C19_FirstNumberOfCleanedText ==
    NumberDone =>
        LET out == probe.out[1]
            cleaned == CommaToPoint(RemoveCurrency(probe.text))
        IN
        /\ out = None <=> ~HasDigit(probe.text)
        /\ out # None =>
              \E a \in 1..Len(cleaned), b \in 1..Len(cleaned) :
                  IsFirstNumber(cleaned, a, b, out[1])
        /\ probe.text = <<"1", "9", "9", ",", "0", "0", " ", "k", "r">> => out = Some(Dec(199, 0))
        /\ probe.text = <<"k", "r", " ", "1", "9", "9">> => out = Some(Dec(199, 0))
        /\ probe.text = <<"$", "1", "9", "9", ".", "9", "9">> => out = Some(Dec(19999, 2))
        /\ probe.text = <<"n", "o", " ", "d", "i", "g", "i", "t", "s", " ", "h", "e", "r", "e">> => out = None

\* "199,00 kr" has been normalized to 199.0.
C19_Witness ==
    /\ NumberDone
    /\ probe.text = <<"1", "9", "9", ",", "0", "0", " ", "k", "r">>
    /\ probe.out[1] = Some(Dec(199, 0))

----------------------------------------------------------------------------
\* The fragment loop of _scrape_willys at one ancestor of a "/st" text: the
\* texts of the spans under it, in document order.

\* Most spans under one ancestor.
MaxSpans == 3

\* `word in text`
Contains(text, word) ==
    \E k \in 0..(Len(text) - Len(word)) :
        SubSeq(text, k + 1, k + Len(word)) = word

\* "/st" in text or "/kg" in text or "/l" in text
IsUnitText(text) ==
    \/ Contains(text, <<"/", "s", "t">>)
    \/ Contains(text, <<"/", "k", "g">>)
    \/ Contains(text, <<"/", "l">>)

\* text.isdigit() and 1 <= len(text) <= 4
IsPricePart(text) ==
    /\ text # <<>>
    /\ \A k \in 1..Len(text) : IsDigit(text[k])
    /\ 1 <= Len(text) /\ Len(text) <= 4

\* numbers: the price parts among the span texts.
NumbersOf(texts) ==
    SelectSeq(texts, LAMBDA t : ~IsUnitText(t) /\ IsPricePart(t))

\* if whole_part in ["0", "00"]: continue
SkipWhole(whole) == whole \in {<<"0">>, <<"0", "0">>}

\* A sanity check without the floor of 1 kr.
InRange_NoFloor(price) == Between(0, price, 10000)

\* if 1 <= price < 10000
InRange(price) == Between(1, price, 10000)

\* for i in range(len(numbers) - 1): the first pair that passes.
RECURSIVE FirstPair(_, _)
FirstPair(numbers, i) ==
    IF i > Len(numbers) - 1 THEN None
    ELSE IF SkipWhole(numbers[i]) THEN FirstPair(numbers, i + 1)
    ELSE LET price == Float(numbers[i], numbers[i + 1]) IN
         IF InRange(price) THEN Some(price) ELSE FirstPair(numbers, i + 1)

\* The price built from the spans of one ancestor, None when the loop goes
\* on to the next ancestor.
FragmentPrice(texts) ==
    LET numbers == NumbersOf(texts) IN
    IF Len(numbers) >= 2 THEN FirstPair(numbers, 1) ELSE None

\* Span texts: price parts of one to four digits, zeros, a run of five
\* digits, a currency word and the unit marker.
SpanTexts ==
    {<<"0">>,
     <<"0", "0">>,
     <<"0", "0", "0">>,
     <<"5">>,
     <<"2", "2">>,
     <<"9", "0">>,
     <<"9", "9", "9", "9">>,
     <<"1", "2", "3", "4", "5">>,
     <<"k", "r">>,
     <<"/", "s", "t">>}
SpanLists == UNION {[1..n -> SpanTexts] : n \in 0..MaxSpans}

InitFragments ==
    /\ \E texts \in SpanLists :
         probe = [fn |-> "_scrape_willys", texts |-> texts, out |-> None]
    /\ scraper = None
    /\ BatchIdle
    /\ AppIdle

FragmentLoop ==
    /\ probe # <<>>
    /\ probe.fn = "_scrape_willys"
    /\ probe.out = None
    /\ probe' = [probe EXCEPT !.out = Some(FragmentPrice(probe.texts))]
    /\ UNCHANGED batch_vars
    /\ UNCHANGED app_vars
    /\ UNCHANGED scraper

NextFragments == FragmentLoop

SpecFragments == InitFragments /\ [][NextFragments]_vars

\* Properties of the fragment loop.
FragmentsDone ==
    probe # <<>> /\ probe.fn = "_scrape_willys" /\ probe.out # None
\* The pairs (numbers[i], numbers[i+1]) whose whole part is neither "0" nor
\* "00" and whose value whole.decimal is at least 1 and below 10000: a
\* whole part of at most four digits is below 10000, and the value reaches
\* 1 exactly when the whole part does.
GoodPairs(numbers) ==
    {i \in 1..(Len(numbers) - 1) :
        /\ numbers[i] # <<"0">> /\ numbers[i] # <<"0", "0">>
        /\ DigitsValue(numbers[i]) >= 1
        /\ DigitsValue(numbers[i]) < 10000}

\* C18: when the spans under one ancestor hold at least two purely numeric
\* fragments of one to four digits, the result is whole.decimal for the
\* first adjacent pair, in document order, whose whole part is neither "0"
\* nor "00" and whose value lies in [1, 10000), and None when no pair is
\* such; the fragments "0", "22", "90" give 22.90; every price built from
\* fragments lies in [1, 10000).
C18_FirstGoodAdjacentPair ==
    FragmentsDone =>
        LET numbers == NumbersOf(probe.texts)
            out == probe.out[1]
            good == GoodPairs(numbers)
        IN
        /\ Len(numbers) >= 2 =>
              IF good = {} THEN out = None
              ELSE LET i == CHOOSE i \in good : \A m \in good : i <= m IN
                   out = Some(Float(numbers[i], numbers[i + 1]))
        /\ out # None =>
              /\ Pow10(out[1].e) <= out[1].m
              /\ out[1].m < 10000 * Pow10(out[1].e)
        /\ probe.texts = <<<<"0">>, <<"2", "2">>, <<"9", "0">>>> =>
              out = Some(Dec(229, 1))

\* The spans "0", "22", "90" gave 22.90.
C18_Witness ==
    /\ FragmentsDone
    /\ probe.texts = <<<<"0">>, <<"2", "2">>, <<"9", "0">>>>
    /\ probe.out[1] = Some(Dec(229, 1))

----------------------------------------------------------------------------
\* JSON documents as json.loads returns them.  An object keeps its members
\* in document order, as a Python dict does.
JNum(x) == [t |-> "num", x |-> x]
JStr(text) == [t |-> "str", text |-> text]
JObj(items) == [t |-> "dict", items |-> items]
JList(items) == [t |-> "list", items |-> items]
Member(key, value) == [k |-> key, v |-> value]

\* `key in data` and data[key] for a dict.
Has(data, key) == \E i \in 1..Len(data.items) : data.items[i].k = key
Get(data, key) ==
    data.items[CHOOSE i \in 1..Len(data.items) : data.items[i].k = key].v

\* str.strip() for blanks.
RECURSIVE Strip(_)
Strip(text) ==
    IF text # <<>> /\ text[1] = " " THEN Strip(Tail(text))
    ELSE IF text # <<>> /\ text[Len(text)] = " "
      THEN Strip(SubSeq(text, 1, Len(text) - 1))
    ELSE text

\* float(text) for a str: blanks around it are dropped and the whole rest
\* has to be digits with at most one point among them, a digit on one of
\* its sides; anything else is a ValueError, given as None.  (Signs,
\* exponents, "inf" and "nan" do not occur in the texts used.)
StrictFloat(text) ==
    LET t == Strip(text)
        whole == DigitRun(t)
        rest == Drop(t, Len(whole))
        frac == IF rest = <<>> THEN <<>> ELSE DigitRun(Tail(rest))
    IN IF rest = <<>>
         THEN IF whole # <<>> THEN Some(Float(whole, <<>>)) ELSE None
       ELSE IF rest[1] = "." /\ Len(frac) = Len(rest) - 1
                /\ (whole # <<>> \/ frac # <<>>)
         THEN Some(Float(whole, frac))
       ELSE None

\* float(value) under `except (ValueError, TypeError)`: None stands for
\* either exception.
ToFloat(value) ==
    IF value.t = "num" THEN Some(value.x)
    ELSE IF value.t = "str" THEN StrictFloat(value.text)
    ELSE None

\* The offers branch of _extract_price_from_jsonld_object.
OffersPrice(data) ==
    IF ~Has(data, "offers") THEN None
    ELSE LET offers == Get(data, "offers") IN
         IF offers.t = "dict"
           THEN IF Has(offers, "price")
                  THEN ToFloat(Get(offers, "price")) ELSE None
         ELSE IF offers.t = "list" /\ offers.items # <<>>
           THEN LET first_offer == offers.items[1] IN
                IF first_offer.t = "dict" /\ Has(first_offer, "price")
                  THEN ToFloat(Get(first_offer, "price")) ELSE None
         ELSE None

\* An object reader that knows the direct price field only.
ExtractPriceFromJsonldObject_DirectOnly(data) ==
    IF Has(data, "price") THEN ToFloat(Get(data, "price")) ELSE None

\* _extract_price_from_jsonld_object(data) for a dict: the direct price
\* field when float() takes it, else the offers.
ExtractPriceFromJsonldObject(data) ==
    IF Has(data, "price") /\ ToFloat(Get(data, "price")) # None
      THEN ToFloat(Get(data, "price"))
      ELSE OffersPrice(data)

\* for item in data: ... if price: return price
RECURSIVE ScanEntries(_)
ScanEntries(entries) ==
    IF entries = <<>> THEN None
    ELSE LET price == ExtractPriceFromJsonldObject(Head(entries)) IN
         IF TruthyDec(price) THEN price ELSE ScanEntries(Tail(entries))

\* _extract_from_jsonld(soup): the ld+json script blocks in document
\* order.  A block is its text parsed, or a text json.loads rejects
\* (JSONDecodeError: continue).
RECURSIVE ExtractFromJsonld(_)
ExtractFromJsonld(blocks) ==
    IF blocks = <<>> THEN None
    ELSE LET block == Head(blocks)
             price == IF ~block.valid THEN None
                      ELSE IF block.data.t = "list"
                        THEN ScanEntries(block.data.items)
                      ELSE ExtractPriceFromJsonldObject(block.data)
         IN IF TruthyDec(price) THEN price
            ELSE ExtractFromJsonld(Tail(blocks))

\* {"price": "<text>"}
PriceObject(text) == JObj(<<Member("price", JStr(text))>>)
\* JSON-LD objects: without a price; with a price of 0 and offers; with a
\* direct price; with a direct price that is no number and an offers
\* object; with a list of offers; with a list of offers whose first entry
\* has no price.
NoPriceEntry == JObj(<<Member("name", JStr(<<"x">>))>>)
ZeroPriceEntry ==
    JObj(<<Member("price", JNum(Dec(0, 0))),
           Member("offers", PriceObject(<<"2", "9", ".", "9", "0">>))>>)
DirectPriceEntry == PriceObject(<<"1", "9", ".", "9", "0">>)
OffersObjectEntry ==
    JObj(<<Member("price", JStr(<<"x">>)),
           Member("offers", PriceObject(<<"4", "9", ".", "9", "0">>))>>)
OffersListEntry ==
    JObj(<<Member("offers",
                  JList(<<PriceObject(<<"3", "9", ".", "9", "0">>), PriceObject(<<"5", "9", ".", "9", "0">>)>>))>>)
OffersListBareFirstEntry ==
    JObj(<<Member("offers",
                  JList(<<NoPriceEntry, PriceObject(<<"5", "9", ".", "9", "0">>)>>))>>)
Entries == {NoPriceEntry, ZeroPriceEntry, DirectPriceEntry,
            OffersObjectEntry, OffersListEntry, OffersListBareFirstEntry}

\* Most ld+json blocks in a page.
MaxBlocks == 2
\* A block: a text that is no JSON, one object, or a list of up to two
\* objects.
Block(valid, data) == [valid |-> valid, data |-> data]
EntryLists == UNION {[1..n -> Entries] : n \in 0..2}
Blocks ==
    {Block(FALSE, JList(<<>>))}
    \cup {Block(TRUE, e) : e \in Entries}
    \cup {Block(TRUE, JList(l)) : l \in EntryLists}
BlockLists == UNION {[1..n -> Blocks] : n \in 0..MaxBlocks}

InitJsonld ==
    /\ \E blocks \in BlockLists :
         probe = [fn |-> "_extract_from_jsonld", blocks |-> blocks,
                  out |-> None]
    /\ scraper = None
    /\ BatchIdle
    /\ AppIdle

JsonldScan ==
    /\ probe # <<>>
    /\ probe.fn = "_extract_from_jsonld"
    /\ probe.out = None
    /\ probe' = [probe EXCEPT !.out = Some(ExtractFromJsonld(probe.blocks))]
    /\ UNCHANGED batch_vars
    /\ UNCHANGED app_vars
    /\ UNCHANGED scraper

NextJsonld == JsonldScan

SpecJsonld == InitJsonld /\ [][NextJsonld]_vars

----------------------------------------------------------------------------
\* Properties of the JSON-LD scan.

JsonldDone ==
    probe # <<>> /\ probe.fn = "_extract_from_jsonld" /\ probe.out # None
\* The objects of a page in document order: block by block and, within a
\* list block, entry by entry.
RECURSIVE EntriesInOrder(_)
EntriesInOrder(blocks) ==
    IF blocks = <<>> THEN <<>>
    ELSE LET block == Head(blocks)
             own == IF ~block.valid THEN <<>>
                    ELSE IF block.data.t = "list" THEN block.data.items
                    ELSE <<block.data>>
         IN own \o EntriesInOrder(Tail(blocks))
\* The numeric value of each object: its direct price field if that is a
\* number, else the price of its offers (the object, or the first entry
\* of the list).
EntryValue(e) ==
    CASE e = NoPriceEntry -> None
      [] e = ZeroPriceEntry -> Some(Dec(0, 0))
      [] e = DirectPriceEntry -> Some(Dec(199, 1))
      [] e = OffersObjectEntry -> Some(Dec(499, 1))
      [] e = OffersListEntry -> Some(Dec(399, 1))
      [] e = OffersListBareFirstEntry -> None
\* The value of the first object, in order, whose value passes.
FirstValue(entries, Passes(_)) ==
    LET hits == {i \in 1..Len(entries) : Passes(EntryValue(entries[i]))} IN
    IF hits = {} THEN None
    ELSE EntryValue(entries[CHOOSE i \in hits : \A m \in hits : i <= m])
IsNumber(x) == x # None
IsNonZeroNumber(x) == x # None /\ x[1].m # 0
\* The list of the claim: a first object without a valid price, a second
\* with offers.price = "49.90".
ExampleBlocks == <<Block(TRUE, JList(<<NoPriceEntry, OffersObjectEntry>>))>>

\* C20, as claimed: the first valid numeric value, in document order,
\* wins.
C20_Claimed_FirstNumberWins ==
    JsonldDone =>
        probe.out[1] = FirstValue(EntriesInOrder(probe.blocks), IsNumber)

\* C20: the scan takes the blocks in document order and the entries of a
\* list block in order; the value of an object is its direct price field
\* if that is a number, else the price of its offers (the offers object,
\* or the first entry of an offers list); the first value that is a number
\* other than 0 wins, an object whose value is 0 being passed over like
\* one without a price.  A list whose first object has no valid price and
\* whose second has offers.price = "49.90" yields 49.90.
C20_FirstNonZeroNumberWins ==
    JsonldDone =>
        /\ probe.out[1] =
              FirstValue(EntriesInOrder(probe.blocks), IsNonZeroNumber)
        /\ probe.blocks = ExampleBlocks => probe.out[1] = Some(Dec(499, 1))

\* The list of the claim has been scanned and gave 49.90.
C20_Witness ==
    /\ JsonldDone
    /\ probe.blocks = ExampleBlocks
    /\ probe.out[1] = Some(Dec(499, 1))

----------------------------------------------------------------------------
\* _find_price_in_dict: the search of the embedded state.

\* if depth > 10
DepthLimit == 10
\* isinstance(value, list) and depth < 5
ListDepthLimit == 5
\* value[:20]
ListItemLimit == 20

PriceKeys ==
    <<"price", "currentPrice", "sellingPrice", "salePrice", "priceValue",
      "unitPrice", "amount", "value", "priceAmount", "retailPrice",
      "displayPrice", "listPrice", "regularPrice">>
SubKeys == <<"amount", "value", "price">>

\* What a loop that may return hands back: whether it returned, and what.
Returned(price) == [hit |-> TRUE, price |-> price]
NotReturned == [hit |-> FALSE, price |-> None]

\* for subkey in ["amount", "value", "price"]: return float(value[subkey]),
\* a ValueError or TypeError passing on to the next subkey.
RECURSIVE SubkeyPrice(_, _)
SubkeyPrice(keys, value) ==
    IF keys = <<>> THEN NotReturned
    ELSE IF Has(value, Head(keys)) /\ ToFloat(Get(value, Head(keys))) # None
      THEN Returned(ToFloat(Get(value, Head(keys))))
    ELSE SubkeyPrice(Tail(keys), value)

\* for key in price_keys: a number is returned as it is, a str when
\* _extract_number gives a truthy number, a dict through its subkeys.
RECURSIVE KeyPrice(_, _)
KeyPrice(keys, data) ==
    IF keys = <<>> THEN NotReturned
    ELSE LET value == Get(data, Head(keys))
             found ==
               IF ~Has(data, Head(keys)) THEN NotReturned
               ELSE IF value.t = "num" THEN Returned(Some(value.x))
               ELSE IF value.t = "str"
                 THEN IF TruthyDec(ExtractNumber(value.text))
                        THEN Returned(ExtractNumber(value.text))
                        ELSE NotReturned
               ELSE IF value.t = "dict" THEN SubkeyPrice(SubKeys, value)
               ELSE NotReturned
         IN IF found.hit THEN found ELSE KeyPrice(Tail(keys), data)

\* A search without the depth guard.
DepthExceeded_Never(depth) == FALSE

\* if depth > 10: return None
DepthExceeded(depth) == depth > DepthLimit

RECURSIVE FindPriceInDict(_, _)
RECURSIVE SearchMembers(_, _)
RECURSIVE SearchList(_, _)

\* for item in value[:20]: the dicts among the items, searched one level
\* down.
SearchList(items, depth) ==
    IF items = <<>> THEN None
    ELSE LET price == IF Head(items).t = "dict"
                        THEN FindPriceInDict(Head(items), depth + 1)
                        ELSE None
         IN IF TruthyDec(price) THEN price
            ELSE SearchList(Tail(items), depth)

\* for key, value in data.items(): dicts are searched one level down,
\* lists only while depth < 5.
SearchMembers(members, depth) ==
    IF members = <<>> THEN None
    ELSE LET value == Head(members).v
             price ==
               IF value.t = "dict" THEN FindPriceInDict(value, depth + 1)
               ELSE IF value.t = "list" /\ depth < ListDepthLimit
                 THEN SearchList(SubSeq(value.items, 1,
                                        Min(ListItemLimit, Len(value.items))),
                                 depth)
               ELSE None
         IN IF TruthyDec(price) THEN price
            ELSE SearchMembers(Tail(members), depth)

\* _find_price_in_dict(data, depth)
FindPriceInDict(data, depth) ==
    IF DepthExceeded(depth) THEN None
    ELSE LET direct == KeyPrice(PriceKeys, data) IN
         IF direct.hit THEN direct.price
         ELSE SearchMembers(data.items, depth)

\* Deepest nesting of the documents searched.
MaxNest == 12

\* The innermost object of a document: {"price": 5}, {"price": 0},
\* {"amount": "5 kr"} or {"name": "x"}.
PriceLeaf == JObj(<<Member("price", JNum(Dec(5, 0)))>>)
ZeroLeaf == JObj(<<Member("price", JNum(Dec(0, 0)))>>)
TextLeaf == JObj(<<Member("amount", JStr(<<"5", " ", "k", "r">>))>>)
NoPriceLeaf == JObj(<<Member("name", JStr(<<"x">>))>>)
Leaves == {PriceLeaf, ZeroLeaf, TextLeaf, NoPriceLeaf}

\* How one object of a document holds the next: all under the key "a",
\* but for at most one, which is under the key "price", or is item 1, 20
\* or 21 of a list under "a" whose other items are numbers.
LinkKinds == {"pricekey", "list1", "list20", "list21"}
ItemOf(kind) ==
    CASE kind = "list1" -> 1 [] kind = "list20" -> 20 [] kind = "list21" -> 21
ListAround(child, at) ==
    JList([i \in 1..at |-> IF i = at THEN child ELSE JNum(Dec(7, 0))])

\* The object at depth d of the document whose innermost object, the leaf,
\* is at depth n and whose special link, if p > 0, leads to depth p.
RECURSIVE Nested(_, _, _, _, _)
Nested(d, n, p, kind, leaf) ==
    IF d = n THEN leaf
    ELSE LET child == Nested(d + 1, n, p, kind, leaf) IN
         IF p = d + 1 /\ kind = "pricekey"
           THEN JObj(<<Member("price", child)>>)
         ELSE IF p = d + 1
           THEN JObj(<<Member("a", ListAround(child, ItemOf(kind)))>>)
         ELSE JObj(<<Member("a", child)>>)

Shapes ==
    {sh \in [n : 0..MaxNest, p : 0..MaxNest, kind : LinkKinds \cup {"none"},
             leaf : Leaves] :
        /\ sh.p <= sh.n
        /\ (sh.p = 0) <=> (sh.kind = "none")}

InitFind ==
    /\ \E sh \in Shapes :
         probe = [fn |-> "_find_price_in_dict", shape |-> sh,
                  data |-> Nested(0, sh.n, sh.p, sh.kind, sh.leaf),
                  out |-> None]
    /\ scraper = None
    /\ BatchIdle
    /\ AppIdle

\* _find_price_in_dict(data), depth = 0.
FindPrice ==
    /\ probe # <<>>
    /\ probe.fn = "_find_price_in_dict"
    /\ probe.out = None
    /\ probe' = [probe EXCEPT !.out = Some(FindPriceInDict(probe.data, 0))]
    /\ UNCHANGED batch_vars
    /\ UNCHANGED app_vars
    /\ UNCHANGED scraper

NextFind == FindPrice

SpecFind == InitFind /\ [][NextFind]_vars

----------------------------------------------------------------------------
\* Properties of the embedded-state search.

FindDone ==
    probe # <<>> /\ probe.fn = "_find_price_in_dict" /\ probe.out # None
Shape == probe.shape
\* The leaf is the value of a "price" key, and has a number under one of
\* the subkeys amount, value, price: the object above it returns that
\* number without descending.
SubkeyRead ==
    /\ Shape.kind = "pricekey" /\ Shape.p = Shape.n
    /\ Shape.leaf \in {PriceLeaf, ZeroLeaf}
\* The descent from the root arrives at the leaf: it is at most at depth
\* 10, and a list on the way is at a depth below 5 and holds the next
\* object among its first 20 items.
Descends ==
    /\ Shape.n <= 10
    /\ Shape.kind \in {"list1", "list20", "list21"} =>
          Shape.p - 1 < 5 /\ Shape.kind # "list21"
LeafValue ==
    CASE Shape.leaf = PriceLeaf -> Some(Dec(5, 0))
      [] Shape.leaf = ZeroLeaf -> Some(Dec(0, 0))
      [] Shape.leaf = TextLeaf -> Some(Dec(5, 0))
      [] Shape.leaf = NoPriceLeaf -> None
\* A value found at depth d comes out of the search: at the root as it
\* is, from below only when it is not 0.
ComesOut(value, d) ==
    IF d = 0 \/ (value # None /\ value[1].m # 0) THEN value ELSE None

\* C17, as claimed: no key of an object nested deeper than 10 levels is
\* examined, so a document whose only number is deeper gives None.
C17_Claimed_NothingReadBelowDepth10 ==
    (FindDone /\ Shape.n > 10) => probe.out[1] = None

\* C17: the search never descends into an object nested deeper than 10
\* levels: the objects at depths 0 to 10 are
\* searched, with lists followed only at depths below 5 and through their
\* first 20 items.  The one read below that is of the subkeys amount,
\* value, price of an object that is the value of a price key at depth 10,
\* so a number at depth 11 can be returned and none at depth 12 or more.
\* A price key at depth 2 or 3 reached through nested objects is found
\* when its number is not 0.
C17_DescentBoundedAtDepth10 ==
    FindDone =>
        LET out == probe.out[1] IN
        /\ out = IF SubkeyRead /\ Shape.n - 1 <= 10
                    THEN ComesOut(LeafValue, Shape.n - 1)
                  ELSE IF Descends THEN ComesOut(LeafValue, Shape.n)
                  ELSE None
        /\ Shape.n >= 12 => out = None
        /\ (Shape.n = 11 /\ ~SubkeyRead) => out = None
        /\ (Shape.kind = "none" /\ Shape.leaf = PriceLeaf) =>
              (out = Some(Dec(5, 0)) <=> Shape.n <= 10)

\* A search that returned the price at depth 11, held under a price key
\* of the object at depth 10.
C17_Witness ==
    /\ FindDone
    /\ Shape.leaf = PriceLeaf
    /\ Shape.n = 11 /\ Shape.kind = "pricekey" /\ Shape.p = 11
    /\ probe.out[1] = Some(Dec(5, 0))

----------------------------------------------------------------------------
\* Exceptions inside the strategies.  A call either returns an optional
\* price or raises; a strategy is its body under `except Exception`.
Value(price) == [raised |-> FALSE, price |-> price]
Thrown == [raised |-> TRUE, price |-> None]

\* A handler that lets the exception through.
ExceptException_Reraise(body) == body

\* try: <body> / except Exception: ... / return None
ExceptException(body) == IF body.raised THEN Value(None) ELSE body

\* A block of JSON text met by a scan: json.loads rejects it
\* (JSONDecodeError); or reading the parsed data raises another exception
\* (a number where an object is expected: `"price" in 5` is a TypeError,
\* [1].items() an AttributeError); or the read gives an optional price.
InvalidBlock == [kind |-> "invalid", price |-> None]
RaisingBlock == [kind |-> "raises", price |-> None]
ReadBlock(price) == [kind |-> "read", price |-> price]

\* The loop of _extract_from_jsonld over the ld+json blocks:
\* `except json.JSONDecodeError: continue` is inside the loop, every other
\* exception leaves it.
RECURSIVE JsonldLoop(_)
JsonldLoop(blocks) ==
    IF blocks = <<>> THEN Value(None)
    ELSE LET block == Head(blocks) IN
         IF block.kind = "invalid" THEN JsonldLoop(Tail(blocks))
         ELSE IF block.kind = "raises" THEN Thrown
         ELSE IF Truthy(block.price) THEN Value(block.price)
         ELSE JsonldLoop(Tail(blocks))

\* _extract_from_jsonld(soup): the loop under `except Exception: pass`.
TryExtractFromJsonld(blocks) == ExceptException(JsonldLoop(blocks))

\* The fallback patterns of _extract_from_nextjs_data: a pattern that does
\* not match is None; `except json.JSONDecodeError: continue`.
RECURSIVE PatternLoop(_)
PatternLoop(matches) ==
    IF matches = <<>> THEN Value(None)
    ELSE IF Head(matches) = None THEN PatternLoop(Tail(matches))
    ELSE LET block == Head(matches)[1] IN
         IF block.kind = "invalid" THEN PatternLoop(Tail(matches))
         ELSE IF block.kind = "raises" THEN Thrown
         ELSE IF Truthy(block.price) THEN Value(block.price)
         ELSE PatternLoop(Tail(matches))

\* The body of _extract_from_nextjs_data: the __NEXT_DATA__ script tag
\* (`except json.JSONDecodeError: pass`), then the fallback patterns.
NextjsBody(tag, matches) ==
    IF tag # None /\ tag[1].kind = "raises" THEN Thrown
    ELSE IF tag # None /\ tag[1].kind = "read" /\ Truthy(tag[1].price)
      THEN Value(tag[1].price)
    ELSE PatternLoop(matches)

\* _extract_from_nextjs_data(html): the body under `except Exception: pass`.
TryExtractFromNextjsData(tag, matches) ==
    ExceptException(NextjsBody(tag, matches))

\* float(content) of the meta tag raises a ValueError inside the
\* heuristic: the tag is reached, and its content is no number.
MetaRaises(domain, page) ==
    /\ page.meta = Some(None)
    /\ DomainStrategy(domain, page).price = None

\* The heuristic of the domain, its body under `except Exception as e`.
TryDomainStrategy(domain, page) ==
    ExceptException(IF MetaRaises(domain, page) THEN Thrown
                    ELSE Value(DomainStrategy(domain, page).price))

\* What the body of fetch_price gives on its static path, with the
\* strategies it consulted: requests.get or raise_for_status raising, then
\* `if price: return price` after each scan, then the heuristic.
FetchPriceBody(domain, h, blocks, tag, matches, page) ==
    IF h # "ok" THEN [out |-> Thrown, trace |-> <<"get">>]
    ELSE LET ld == TryExtractFromJsonld(blocks)
             nx == TryExtractFromNextjsData(tag, matches)
             own == TryDomainStrategy(domain, page)
         IN IF ld.raised \/ Truthy(ld.price)
              THEN [out |-> ld, trace |-> <<"get", "jsonld">>]
            ELSE IF nx.raised \/ Truthy(nx.price)
              THEN [out |-> nx, trace |-> <<"get", "jsonld", "nextjs">>]
            ELSE [out |-> own,
                  trace |-> <<"get", "jsonld", "nextjs", "domain">>]

\* fetch_price(url): the body under `except Exception as e: return None`.
TryFetchPrice(domain, h, blocks, tag, matches, page) ==
    LET body == FetchPriceBody(domain, h, blocks, tag, matches, page) IN
    [out |-> ExceptException(body.out), trace |-> body.trace]

\* The pages of the study: up to two ld+json blocks, a __NEXT_DATA__ tag,
\* two fallback patterns, and the markup the heuristics read.
ScanBlocks == {InvalidBlock, RaisingBlock, ReadBlock(None), ReadBlock(Some(11))}
ScanBlockLists == UNION {[1..n -> ScanBlocks] : n \in 0..2}
TagBlocks ==
    {None, Some(InvalidBlock), Some(RaisingBlock), Some(ReadBlock(None)),
     Some(ReadBlock(Some(12)))}
PatternMatches == {None, Some(InvalidBlock), Some(ReadBlock(Some(22)))}
HeuristicPages ==
    {pg \in Pages : /\ pg.jsonld = None /\ pg.nextjs = None /\ pg.frag = None
                     /\ pg.testid = None /\ pg.itemprop = None
                     /\ pg.idp = None}

InitExcept ==
    /\ \E domain \in Domains, h \in HttpOutcomes, blocks \in ScanBlockLists,
          tag \in TagBlocks, matches \in [1..2 -> PatternMatches],
          page \in HeuristicPages :
         probe = [fn |-> "fetch_price_except", domain |-> domain, http |-> h,
                  blocks |-> blocks, tag |-> tag, matches |-> matches,
                  page |-> page, out |-> None]
    /\ scraper = None
    /\ BatchIdle
    /\ AppIdle

\* scraper.fetch_price(url) on the page.
FetchPriceExcept ==
    /\ probe # <<>>
    /\ probe.fn = "fetch_price_except"
    /\ probe.out = None
    /\ probe' = [probe EXCEPT !.out =
                    Some(TryFetchPrice(probe.domain, probe.http, probe.blocks,
                                       probe.tag, probe.matches, probe.page))]
    /\ UNCHANGED batch_vars
    /\ UNCHANGED app_vars
    /\ UNCHANGED scraper

NextExcept == FetchPriceExcept

SpecExcept == InitExcept /\ [][NextExcept]_vars

\* Properties of the exception handling.
ExceptDone ==
    probe # <<>> /\ probe.fn = "fetch_price_except" /\ probe.out # None
\* The first block of a scan that ends it: one that raises, or one read to
\* a price that is not 0; 0 when there is none.
FirstEnding(blocks) ==
    LET ending == {i \in 1..Len(blocks) :
                      \/ blocks[i].kind = "raises"
                      \/ blocks[i].kind = "read" /\ Truthy(blocks[i].price)}
    IN IF ending = {} THEN 0
       ELSE CHOOSE i \in ending : \A m \in ending : i <= m
\* What a scan over the blocks is to give: the price of the first ending
\* block, nothing when that block raised or there is none.
ScanPrice(blocks) ==
    IF FirstEnding(blocks) = 0 THEN None
    ELSE blocks[FirstEnding(blocks)].price
\* The candidates of the embedded-state scan in the order they are tried.
Candidates(tag, matches) ==
    LET all == <<tag>> \o matches
        RECURSIVE Present(_)
        Present(s) == IF s = <<>> THEN <<>>
                      ELSE IF Head(s) = None THEN Present(Tail(s))
                      ELSE <<Head(s)[1]>> \o Present(Tail(s))
    IN Present(all)

\* C21: fetch_price never raises and gives a price or None for every
\* page; a block json.loads rejects is skipped and the scan goes on to the
\* next block; a block whose reading raises ends its scan with nothing;
\* and whenever the structured-data scan gave nothing the embedded-state
\* scan is consulted, and whenever that gave nothing too the heuristic of
\* the domain is, whose own exception gives None.
C21_StrategiesNeverRaise ==
    ExceptDone =>
        LET res == probe.out[1]
            ld == ScanPrice(probe.blocks)
            nx == ScanPrice(Candidates(probe.tag, probe.matches))
            own == DomainStrategy(probe.domain, probe.page).price
        IN
        /\ ~res.out.raised
        /\ res.out.price = None \/ res.out.price[1] \in 11..22
        /\ probe.http # "ok" => res.out.price = None
        /\ probe.http = "ok" =>
              /\ res.out.price = IF ld # None THEN ld
                                 ELSE IF nx # None THEN nx ELSE own
              /\ ld = None => \E k \in 1..Len(res.trace) :
                                  res.trace[k] = "nextjs"
              /\ (ld = None /\ nx = None) =>
                    res.trace[Len(res.trace)] = "domain"

\* A page whose first ld+json block raises while being read, whose
\* __NEXT_DATA__ tag raises too, and whose meta tag holds no number: the
\* heuristic was still consulted and fetch_price returned None.
C21_Witness ==
    /\ ExceptDone
    /\ probe.http = "ok"
    /\ Len(probe.blocks) = 2
    /\ probe.blocks[1] = RaisingBlock
    /\ probe.blocks[2] = ReadBlock(Some(11))
    /\ probe.tag = Some(RaisingBlock)
    /\ probe.matches[1] = Some(ReadBlock(Some(22)))
    /\ probe.page.meta = Some(None)
    /\ probe.page.cls = None
    /\ probe.out[1].out = Value(None)
    /\ probe.out[1].trace = <<"get", "jsonld", "nextjs", "domain">>

----------------------------------------------------------------------------
\* The Flask app (create_app): the routes over groups.json and urls.json.
\* Group names and URLs are texts, sequences of characters; a UUID is the
\* number of the uuid4() call that made it.

\* Most requests the app serves.
MaxRequests == 5

\* The Group dataclass.
Group(id, name) == [id |-> id, name |-> name]

\* create_app(): no request served, no uuid made, nothing flashed.
NewApp == [requests |-> 0, uuid4 |-> 0, flash |-> ""]

\* uuid.uuid4(): a value no earlier call gave.
Uuid4 == web.uuid4 + 1

\* IndexedJsonDB.get(key): the record with the primary key, or None.
DbGet(d, id) ==
    IF HasId(d, id) THEN Some(d[CHOOSE k \in 1..Len(d) : d[k].id = id])
    ELSE None
\* IndexedJsonDB.add(item)
DbAdd(d, rec) == Append(d, rec)
\* IndexedJsonDB.remove(key)
DbRemove(d, id) == SelectSeq(d, LAMBDA rec : rec.id # id)
\* urls_db.find(group_id=group_id)
FindByGroup(d, group_id) == SelectSeq(d, LAMBDA rec : rec.group_id = group_id)
\* groups_db.find(name=name)
FindByName(d, name) == SelectSeq(d, LAMBDA rec : rec.name = name)

\* is_duplicate_group_name without exclude_id: a rename to the group's own
\* name counts as a duplicate.
IsDuplicateGroupName_NoExclude(d, name, exclude_id) ==
    FindByName(d, name) # <<>>

\* is_duplicate_group_name(name, exclude_id)
IsDuplicateGroupName(d, name, exclude_id) ==
    LET existing == FindByName(d, name) IN
    IF existing = <<>> THEN FALSE
    ELSE IF exclude_id = None THEN TRUE
    ELSE \E k \in 1..Len(existing) : existing[k].id # exclude_id[1]

\* validate_non_empty_input(value, field_name): `if not value`
ValidateNonEmptyInput(value) == value # <<>>

\* validate_group_exists that takes every group for an existing one.
ValidateGroupExists_Always(d, group_id) == TRUE

\* validate_group_exists(group_id)
ValidateGroupExists(d, group_id) == DbGet(d, group_id) # None

\* is_duplicate_url_in_group that looks at every group.
IsDuplicateUrlInGroup_AnyGroup(d, url, group_id) ==
    \E k \in 1..Len(d) : d[k].url = url

\* is_duplicate_url_in_group that never finds one.
IsDuplicateUrlInGroup_Never(d, url, group_id) == FALSE

\* is_duplicate_url_in_group(url, group_id)
IsDuplicateUrlInGroup(d, url, group_id) ==
    LET existing == FindByGroup(d, group_id) IN
    \E k \in 1..Len(existing) : existing[k].url = url

\* The group_id form field: empty, a text uuid.UUID() rejects, or a UUID.
NoUuidText == [kind |-> "empty", id |-> 0]
BadUuidText == [kind |-> "invalid", id |-> 0]
UuidText(id) == [kind |-> "uuid", id |-> id]
\* parse_uuid(uuid_str, field_name)
ParseUuid(uuid_str) ==
    IF uuid_str.kind = "uuid" THEN Some(uuid_str.id) ELSE None

\* create_updated_url that starts from a new record: the price fields
\* are left at their defaults.
CreateUpdatedUrl_FreshPrices(existing_url, new_url_string) ==
    URL(existing_url.id, new_url_string, existing_url.group_id,
        None, None, None)

\* create_updated_url(existing_url, new_url_string)
CreateUpdatedUrl(existing_url, new_url_string) ==
    URL(existing_url.id, new_url_string, existing_url.group_id,
        existing_url.current_price, existing_url.previous_price,
        existing_url.last_price_change)

\* The state of update_all_prices besides urls.json.
job_vars == <<db0, slack_client, pc, urls, total, idx, updated, unchanged,
              failed, failed_urls, now, inputs, outcome, writes, alerts,
              summaries, notify_failed, fault, calls>>

\* flash(message, category) and the redirect to index, no store written.
Refuse(message) ==
    /\ web' = [web EXCEPT !.flash = message, !.requests = @ + 1]
    /\ UNCHANGED <<db, groups_db>>

\* What every route leaves alone.
RouteFrame == UNCHANGED job_vars /\ UNCHANGED <<scraper, probe>>

\* POST /group/add
AddGroup(name_field) ==
    LET group_name == Strip(name_field) IN
    /\ web # <<>>
    /\ web.requests < MaxRequests
    /\ IF ~ValidateNonEmptyInput(group_name)
         THEN Refuse("Group name cannot be empty!")
       ELSE IF IsDuplicateGroupName(groups_db, group_name, None)
         THEN Refuse("Group with this name already exists!")
       ELSE /\ groups_db' = DbAdd(groups_db, Group(Uuid4, group_name))
            /\ web' = [requests |-> web.requests + 1, uuid4 |-> Uuid4,
                       flash |-> "Group added successfully!"]
            /\ UNCHANGED db
    /\ RouteFrame

\* POST /group/update/<uuid:group_id>
UpdateGroup(group_id, name_field) ==
    LET group_name == Strip(name_field) IN
    /\ web # <<>>
    /\ web.requests < MaxRequests
    /\ IF ~ValidateNonEmptyInput(group_name)
         THEN Refuse("Group name cannot be empty!")
       ELSE IF DbGet(groups_db, group_id) = None
         THEN Refuse("Group not found!")
       ELSE IF IsDuplicateGroupName(groups_db, group_name, Some(group_id))
         THEN Refuse("Another group with this name already exists!")
       ELSE /\ groups_db' = DbUpdate(groups_db, Group(group_id, group_name))
            /\ web' = [web EXCEPT !.flash = "Group updated successfully!",
                                  !.requests = @ + 1]
            /\ UNCHANGED db
    /\ RouteFrame

\* POST /group/delete/<uuid:group_id>
DeleteGroup(group_id) ==
    /\ web # <<>>
    /\ web.requests < MaxRequests
    /\ IF FindByGroup(db, group_id) # <<>>
         THEN Refuse("Cannot delete group with URLs! Remove all URLs first.")
       ELSE IF HasId(groups_db, group_id)
         THEN /\ groups_db' = DbRemove(groups_db, group_id)
              /\ web' = [web EXCEPT !.flash = "Group deleted successfully!",
                                    !.requests = @ + 1]
              /\ UNCHANGED db
       ELSE Refuse("Group not found!")
    /\ RouteFrame

\* POST /url/add
AddUrl(url_field, group_id_str) ==
    LET url_input == Strip(url_field)
        group_id == ParseUuid(group_id_str)
    IN
    /\ web # <<>>
    /\ web.requests < MaxRequests
    /\ IF ~ValidateNonEmptyInput(url_input)
         THEN Refuse("URL cannot be empty!")
       ELSE IF group_id_str.kind = "empty"
         THEN Refuse("Please select a group!")
       ELSE IF group_id = None
         THEN Refuse("Invalid group ID!")
       ELSE IF ~ValidateGroupExists(groups_db, group_id[1])
         THEN Refuse("Group does not exist!")
       ELSE IF IsDuplicateUrlInGroup(db, url_input, group_id[1])
         THEN Refuse("This URL already exists in the selected group!")
       ELSE /\ db' = DbAdd(db, URL(Uuid4, url_input, group_id[1],
                                   None, None, None))
            /\ web' = [requests |-> web.requests + 1, uuid4 |-> Uuid4,
                       flash |-> "URL added successfully!"]
            /\ UNCHANGED groups_db
    /\ RouteFrame

\* POST /url/update/<uuid:url_id>
UpdateUrl(url_id, url_field) ==
    LET url_input == Strip(url_field)
        existing_url == DbGet(db, url_id)
    IN
    /\ web # <<>>
    /\ web.requests < MaxRequests
    /\ IF ~ValidateNonEmptyInput(url_input)
         THEN Refuse("URL cannot be empty!")
       ELSE IF existing_url = None
         THEN Refuse("URL not found!")
       ELSE /\ db' = DbUpdate(db, CreateUpdatedUrl(existing_url[1], url_input))
            /\ web' = [web EXCEPT !.flash = "URL updated successfully!",
                                  !.requests = @ + 1]
            /\ UNCHANGED groups_db
    /\ RouteFrame

\* POST /url/delete/<uuid:url_id>
DeleteUrl(url_id) ==
    /\ web # <<>>
    /\ web.requests < MaxRequests
    /\ IF HasId(db, url_id)
         THEN /\ db' = DbRemove(db, url_id)
              /\ web' = [web EXCEPT !.flash = "URL deleted successfully!",
                                    !.requests = @ + 1]
              /\ UNCHANGED groups_db
       ELSE Refuse("URL not found!")
    /\ RouteFrame

\* The diff of refresh_url_price with previous_price left as it was.
RefreshChange_KeepPrevious(url_obj, new_price, ts) ==
    [url_obj EXCEPT !.current_price = new_price,
                    !.last_price_change = Some(ts)]

\* url_obj.previous_price = url_obj.current_price; url_obj.current_price =
\* new_price; url_obj.last_price_change = datetime.now(timezone.utc)
RefreshChange(url_obj, new_price, ts) ==
    [url_obj EXCEPT !.previous_price = url_obj.current_price,
                    !.current_price = new_price,
                    !.last_price_change = Some(ts)]

\* urls.json after refresh_url_price(url_id) when the `with` block gave
\* new_price at the time ts.
RefreshedStore(d, url_id, new_price, ts) ==
    LET url_obj == DbGet(d, url_id) IN
    IF url_obj = None \/ new_price = None THEN d
    ELSE IF url_obj[1].current_price # new_price
      THEN DbUpdate(d, RefreshChange(url_obj[1], new_price, ts))
    ELSE d

\* POST /url/refresh/<uuid:url_id>; r is what the `with PriceScraper()`
\* block did: it gave fetch_price's result, or it raised (close() can).
RefreshUrlPrice(url_id, r) ==
    LET url_obj == DbGet(db, url_id) IN
    /\ web # <<>>
    /\ web.requests < MaxRequests
    /\ db' = IF r.raised THEN db ELSE RefreshedStore(db, url_id, r.price, now)
    /\ web' = [web EXCEPT !.flash =
                 IF url_obj = None THEN "URL not found!"
                 ELSE IF r.raised THEN "Internal Server Error"
                 ELSE IF r.price = None
                   THEN "Failed to fetch price for this URL."
                 ELSE IF url_obj[1].current_price # r.price
                   THEN "Price updated"
                 ELSE "Price unchanged",
               !.requests = @ + 1]
    /\ UNCHANGED groups_db
    /\ RouteFrame

\* The form fields and route parameters of the requests made.
GroupNameFields == {<<" ">>, <<"w">>, <<"p", " ">>}
UrlFields == {<<" ">>, <<"a">>, <<"a", "/", " ">>}
RouteIds == 1..MaxRequests
GroupIdFields == {NoUuidText, BadUuidText} \cup {UuidText(id) : id \in RouteIds}

\* The app over empty stores, as the tests start it.
InitWeb ==
    /\ BatchIdle
    /\ scraper = None
    /\ probe = <<>>
    /\ groups_db = <<>>
    /\ web = NewApp

NextWeb ==
    \/ \E name_field \in GroupNameFields : AddGroup(name_field)
    \/ \E group_id \in RouteIds, name_field \in GroupNameFields :
         UpdateGroup(group_id, name_field)
    \/ \E group_id \in RouteIds : DeleteGroup(group_id)
    \/ \E url_field \in UrlFields, group_id_str \in GroupIdFields :
         AddUrl(url_field, group_id_str)
    \/ \E url_id \in RouteIds, url_field \in UrlFields :
         UpdateUrl(url_id, url_field)
    \/ \E url_id \in RouteIds : DeleteUrl(url_id)
    \/ \E url_id \in RouteIds, r \in FetchResults : RefreshUrlPrice(url_id, r)

SpecWeb == InitWeb /\ [][NextWeb]_vars

----------------------------------------------------------------------------
\* Properties of the routes.

\* Some record of the group holds the URL.
InGroup(d, group_id, url) ==
    \E k \in 1..Len(d) : d[k].group_id = group_id /\ d[k].url = url
\* The two texts differ by one trailing slash only.
SlashApart(a, b) == a = Append(b, "/") \/ b = Append(a, "/")
\* Both stores are as they were.
StoresKept == db' = db /\ groups_db' = groups_db
\* The last message flashed.
Flashed(message) == web # <<>> /\ web.flash = message

\* C22: add_url with a URL that some record of the selected (existing)
\* group already holds is rejected with the duplicate message and leaves
\* both stores as they were; with a URL no record of the selected group
\* holds, a record of another group holding it or not, it appends a new
\* record to the URL store.
C22_DuplicateUrlRejectedPerGroup ==
    [][\A url_field \in UrlFields, group_id \in RouteIds :
         (/\ AddUrl(url_field, UuidText(group_id))
          /\ Strip(url_field) # <<>>
          /\ HasId(groups_db, group_id))
         => IF InGroup(db, group_id, Strip(url_field))
              THEN /\ StoresKept
                   /\ web'.flash =
                        "This URL already exists in the selected group!"
              ELSE /\ db' = Append(db, URL(web.uuid4 + 1, Strip(url_field),
                                           group_id, None, None, None))
                   /\ web'.flash = "URL added successfully!"]_vars

\* Two groups hold the same URL, and the last request, adding it once
\* more, was rejected as a duplicate.
C22_Witness ==
    /\ Flashed("This URL already exists in the selected group!")
    /\ \E j, k \in 1..Len(db) :
         db[j].url = db[k].url /\ db[j].group_id # db[k].group_id

\* C23 as claimed: add_url with a URL one trailing slash apart from the URL
\* of a record of the selected group is rejected with the duplicate message
\* and leaves both stores as they were.
C23_Claimed_TrailingSlashIsDuplicate ==
    [][\A url_field \in UrlFields, group_id \in RouteIds :
         (/\ AddUrl(url_field, UuidText(group_id))
          /\ HasId(groups_db, group_id)
          /\ \E k \in 1..Len(db) :
               /\ db[k].group_id = group_id
               /\ SlashApart(db[k].url, Strip(url_field)))
         => /\ StoresKept
            /\ web'.flash =
                 "This URL already exists in the selected group!"]_vars

GroupsExist == \A k \in 1..Len(db) : HasId(groups_db, db[k].group_id)

\* C25: every stored URL record's group_id is the id of a stored group;
\* add_url with the id of no stored group is refused, and delete_group on
\* a group that has URL records is refused; both leave the stores as they
\* were.
C25_UrlsNameExistingGroups ==
    /\ []GroupsExist
    /\ [][\A url_field \in UrlFields, group_id \in RouteIds :
            (/\ AddUrl(url_field, UuidText(group_id))
             /\ Strip(url_field) # <<>>
             /\ ~HasId(groups_db, group_id))
            => StoresKept /\ web'.flash = "Group does not exist!"]_vars
    /\ [][\A group_id \in RouteIds :
            (/\ DeleteGroup(group_id)
             /\ \E k \in 1..Len(db) : db[k].group_id = group_id)
            => /\ StoresKept
               /\ web'.flash =
                    "Cannot delete group with URLs! Remove all URLs first."]_vars

\* The last request tried to delete a group that has a URL record; an
\* earlier one had deleted another group.
C25_Witness ==
    /\ Flashed("Cannot delete group with URLs! Remove all URLs first.")
    /\ db # <<>>
    /\ web.uuid4 > Len(db) + Len(groups_db)

\* No two stored groups have the same name.
NamesDiffer ==
    \A j, k \in 1..Len(groups_db) :
        groups_db[j].name = groups_db[k].name => j = k
\* Some stored group other than the given one has the name.
NameTaken(name, but) ==
    \E k \in 1..Len(groups_db) :
        groups_db[k].name = name /\ groups_db[k].id # but

\* C27: no two stored groups have the same name; add_group with a name in
\* use is rejected; update_group of a stored group is rejected when
\* another group has the name and accepted otherwise, the group's own
\* current name included; a rejected request leaves the stores as they
\* were.
C27_GroupNamesUnique ==
    /\ []NamesDiffer
    /\ [][\A name_field \in GroupNameFields :
            (AddGroup(name_field) /\ NameTaken(Strip(name_field), 0))
            => /\ StoresKept
               /\ web'.flash = "Group with this name already exists!"]_vars
    /\ [][\A group_id \in RouteIds, name_field \in GroupNameFields :
            (/\ UpdateGroup(group_id, name_field)
             /\ Strip(name_field) # <<>>
             /\ HasId(groups_db, group_id))
            => IF NameTaken(Strip(name_field), group_id)
                 THEN /\ StoresKept
                      /\ web'.flash =
                           "Another group with this name already exists!"
                 ELSE /\ groups_db' =
                           DbUpdate(groups_db,
                                    Group(group_id, Strip(name_field)))
                      /\ web'.flash = "Group updated successfully!"]_vars

\* Two groups are stored and the last request, renaming one to the name
\* of the other, was rejected.
C27_Witness ==
    /\ Flashed("Another group with this name already exists!")
    /\ Len(groups_db) = 2

\* C29 as claimed: no group holds two URL records with the same url.
C29_Claimed_NoDuplicateUrlInGroup ==
    \A j, k \in 1..Len(db) :
        (db[j].group_id = db[k].group_id /\ db[j].url = db[k].url) => j = k

----------------------------------------------------------------------------
\* One run of update_all_prices while the app serves requests: the two
\* processes share urls.json, each request and each step of the run
\* reading and writing it at once.

\* urls.json and groups.json when the run starts: one group; a URL record
\* never priced, or priced at 120.0 and then at 100.0; and with it or not
\* a second record, never priced.
SharedGroups == <<Group(1, <<"w">>)>>
SharedStores ==
    UNION {{<<URL(2, <<"a">>, 1, f[1], f[2], f[3])>>,
            <<URL(2, <<"a">>, 1, f[1], f[2], f[3]),
              URL(3, <<"a", "/">>, 1, None, None, None)>>} :
             f \in PriceFields}

InitShared ==
    /\ db \in SharedStores
    /\ db0 = db
    /\ groups_db = SharedGroups
    /\ web = [NewApp EXCEPT !.uuid4 = 1 + Len(db)]
    /\ slack_client = FALSE
    /\ pc = "start"
    /\ urls = <<>>
    /\ total = 0 /\ idx = 0 /\ updated = 0 /\ unchanged = 0 /\ failed = 0
    /\ failed_urls = <<>>
    /\ now = 1
    /\ inputs = <<>>
    /\ outcome = <<>>
    /\ writes = <<>>
    /\ alerts = <<>>
    /\ summaries = <<>>
    /\ notify_failed = FALSE
    /\ fault = "none"
    /\ calls = <<>>
    /\ scraper = None
    /\ probe = <<>>

\* Most requests the app serves while the run is under way.
MaxEdits == 2

\* The requests made during the run: another URL for a stored record, a
\* new record, a manual refresh.
SharedUrlFields == {<<"b">>}
SharedIds == 2..3

NextShared ==
    \/ Next
    \/ /\ web.requests < MaxEdits
       /\ \E url_field \in SharedUrlFields : AddUrl(url_field, UuidText(1))
    \/ /\ web.requests < MaxEdits
       /\ \E url_id \in SharedIds, url_field \in SharedUrlFields :
            UpdateUrl(url_id, url_field)
    \/ /\ web.requests < MaxEdits
       /\ \E url_id \in SharedIds, r \in FetchResults :
            RefreshUrlPrice(url_id, r)

SpecShared == InitShared /\ [][NextShared]_vars

----------------------------------------------------------------------------
\* Properties of the shared store.

\* The price fields of a record agree with each other.
PriceFieldsAgree(rec) ==
    /\ rec.last_price_change # None <=> rec.current_price # None
    /\ rec.previous_price # None => rec.current_price # None
    /\ rec.current_price # None => rec.previous_price # rec.current_price

\* C26: a record made by add_url has its three price fields unset; and in
\* every state of the store, during and after a batch run with refreshes
\* and URL edits in between, every record has last_price_change set
\* exactly when current_price is, previous_price set only if current_price
\* is, and previous_price different from current_price once that is set.
C26_PriceFieldsConsistent ==
    /\ [](\A k \in 1..Len(db) : PriceFieldsAgree(db[k]))
    /\ [][\A url_field \in SharedUrlFields :
            (AddUrl(url_field, UuidText(1)) /\ Len(db') = Len(db) + 1)
            => LET new_url == db'[Len(db')] IN
               /\ new_url.current_price = None
               /\ new_url.previous_price = None
               /\ new_url.last_price_change = None]_vars

\* The run is over; it wrote a new price to a record that had one, a
\* record added during the run was priced by a manual refresh, and every
\* record has been priced.
C26_Witness ==
    /\ pc = "done"
    /\ updated > 0
    /\ Len(db) > Len(db0)
    /\ db[Len(db)].current_price # None
    /\ \E k \in 1..Len(db0) : db[k].previous_price = Some(100)
    /\ \A k \in 1..Len(db) : db[k].current_price # None

\* urls.json after the batch run's step for the record url_obj when
\* fetch_price gave new_price at the time ts and the write went through.
BatchLeaves(d, url_obj, new_price, ts) ==
    IF FetchFailed(new_price) \/ ~PriceChanged(url_obj, new_price) THEN d
    ELSE DbUpdate(d, ApplyChange(url_obj, new_price, ts))

\* C28: for every stored record and every extraction outcome (no price,
\* the current price, another price), refresh_url_price leaves in the
\* store what the batch run's step leaves for the same record, outcome and
\* time, and the batch step on an up-to-date copy leaves what the refresh
\* does.  (The steps that move idx inside the loop are those of
\* ProcessItem.)
C28_RefreshAndBatchAgree ==
    /\ [][web' # web =>
            \A url_id \in SharedIds, r \in FetchResults :
              (RefreshUrlPrice(url_id, r) /\ ~r.raised /\ HasId(db, url_id))
              => db' = BatchLeaves(db, DbGet(db, url_id)[1], r.price, now)]_vars
    /\ [][(/\ pc = "loop" /\ idx' = idx + 1
           /\ DbGet(db, urls[idx].id) = Some(urls[idx])
           /\ ~inputs'[idx][1].raised
           /\ inputs'[idx][1].write # "raise")
          => db' = RefreshedStore(db, urls[idx].id, inputs'[idx][1].price,
                                  now)]_vars

\* A manual refresh has just changed a price, after the run had changed
\* one.
C28_Witness ==
    /\ Flashed("Price updated")
    /\ updated > 0
    /\ \E k \in 1..Len(db) :
         db[k].current_price = Some(120) /\ db[k].previous_price = Some(100)

\* C30 as claimed: a store write of the batch run changes nothing but the
\* three price fields of the record it is for; the url the store holds
\* for that record, one written by update_url since the run listed the
\* records included, is still there after the write.
C30_Claimed_BatchWriteKeepsUrl ==
    [][(ProcessItem /\ updated' = updated + 1)
       => \A k \in 1..Len(db) :
            /\ db'[k].id = db[k].id
            /\ db'[k].url = db[k].url
            /\ db'[k].group_id = db[k].group_id]_vars
====
